---- MODULE Spec2Model ----
(***************************************************************************)
(* Authentication and session security of llmteachme: AuthService (login,  *)
(* refreshToken, logout, changePassword, revokeAllSessions) over the       *)
(* users, refresh-token and security-log collections.                      *)
(*                                                                         *)
(* Time is counted in ticks of half a refresh-token lifetime (3.5 days):   *)
(* the 7-day lifetime of a refresh token is RefreshTokenTtl = 2 ticks and  *)
(* the 15-minute lifetime of an access token ends with the tick of its     *)
(* issuance (AccessTokenTtl = 1).  Two tokens signed in the same tick      *)
(* model two tokens signed within the same second (equal iat).             *)
(***************************************************************************)
EXTENDS Integers, Sequences, FiniteSets, TLC

\* ---------------------------------------------------------------- bounds
MaxTime == 3
MaxLogins == 2
MaxEvents == 1

\* ------------------------------------------------------- program constants
\* jwtService.sign(payload, { expiresIn: '7d' }) and setDate(getDate() + 7)
RefreshTokenTtl == 2
\* jwtService.sign(payload, { expiresIn: '15m' }), JwtModule signOptions
AccessTokenTtl == 1
\* bcrypt reads at most the first 72 bytes of the string it hashes
BcryptMaxBytes == 72
\* base64url of {"alg":"HS256","typ":"JWT"} (36 chars) and the dot after it
JwtHeaderChars == 37

\* ------------------------------------------------------------ input values
Users == {"u1", "u2"}
Undefined == "undefined"
UserAgents == {"ua1", "ua2"}
IpAddresses == {"ip1", "ip2"}
\* fingerprints that logins are made from
LoginFingerprints ==
    { <<"ua1", "ip1">>, <<"ua2", "ip2">>, <<Undefined, "ip1">>, <<"ua1", Undefined>> }
\* fingerprints that refresh requests come with
RequestFingerprints == LoginFingerprints \cup { <<"ua1", "ip2">> }
Passwords == {"pw1", "pw2"}
\* two passwords of 73 bytes that differ in their last byte only
LongPasswords == {"long1", "long2"}
Secret == "JWT_SECRET"

VARIABLES
    now,            \* the server clock, in ticks
    users,          \* userModel: the account of every user id
    userStats,      \* userStatsModel: the user ids that have a statistics document
    refreshTokens,  \* refreshTokenModel: the ledger, in insertion order
    securityLogs,   \* securityLogModel: the security events, in insertion order
    issued,         \* what every successful login returned to its client
    last,           \* the last call: operation, arguments, outcome
    inflight,       \* the calls that are between two of their awaits
    calls,          \* the calls of the other services that are between two awaits
    systemPrompts,  \* systemPromptModel: the configuration of every id
    uniqueActiveIndex, \* whether the database has the unique partial index on isActive
    promptCache,    \* SystemPromptCacheService: cachedPrompt, cachedVersion, lastUpdate
    chatSessions,   \* chatSessionModel: the chat sessions, in insertion order
    requestCounts   \* RateLimitGuard.requestCounts: the entry of every client IP

\* the state outside of the ledger, which the calls of AuthService and
\* UserService that are taken whole never touch
elsewhere ==
    <<calls, systemPrompts, uniqueActiveIndex, promptCache, chatSessions, requestCounts>>

vars == <<now, users, userStats, refreshTokens, securityLogs, issued, last, inflight,
          calls, systemPrompts, uniqueActiveIndex, promptCache, chatSessions,
          requestCounts>>

\* ------------------------------------------------------------------ strings
\* A plain string (a password): head is what lies within its first 72 bytes,
\* body what comes after them.
PlainString(s) ==
    IF s \in LongPasswords
    THEN [kind |-> "plain", head |-> "long", body |-> << [val |-> s, bytes |-> 1] >>]
    ELSE [kind |-> "plain", head |-> s, body |-> <<>>]

\* The ObjectId of a user as 24 hex digits: timestamp and process value
\* (18 digits), then the counter (6 digits).
ObjectIdHex(u) == << [val |-> "65f0c3a1-9b2e4d7f10", bytes |-> 18], [val |-> u, bytes |-> 6] >>

\* The compact serialisation of a signed token: header, ".", base64url of the
\* payload JSON {"sub":..,"userId":..,"name":..,"role":..,"iat":..,"exp":..},
\* ".", signature.  body lists the payload in order with its byte counts.
JwtString(t) ==
    [kind |-> "jwt",
     head |-> "eyJhbGciOiJIUzI1NiIsInR5cCI6IkpXVCJ9.",
     body |-> << [val |-> "{sub:", bytes |-> 8] >> \o ObjectIdHex(t.sub) \o
              << [val |-> <<t.userId, t.name, t.role>>, bytes |-> 60],
                 [val |-> <<t.iat, t.exp>>, bytes |-> 34],
                 [val |-> t.sig, bytes |-> 43] >>]

RECURSIVE TakeBytes(_, _)
\* The fields of a string that lie within its first n bytes (a field cut by
\* the limit is left out: of the counter only 2 bits would remain).
TakeBytes(fields, n) ==
    IF fields = <<>> \/ Head(fields).bytes > n THEN <<>>
    ELSE <<Head(fields)>> \o TakeBytes(Tail(fields), n - Head(fields).bytes)

\* Payload bytes that the first 72 characters of a token cover: the 35
\* base64url characters after the header carry 6 bits each.
PayloadBytesKept == ((BcryptMaxBytes - JwtHeaderChars) * 6) \div 8

\* What bcrypt reads of a string: its first 72 bytes.
BcryptInput(s) ==
    IF s.kind = "jwt" THEN [s EXCEPT !.body = TakeBytes(s.body, PayloadBytesKept)]
    ELSE [s EXCEPT !.body = <<>>]

BcryptHash(s, salt) == [salt |-> salt, digest |-> BcryptInput(s)]

BcryptCompare(s, hash) == BcryptInput(s) = hash.digest

\* --------------------------------------------------------------------- jwt
JwtSign(payload, ttl) ==
    [sub |-> payload.sub, userId |-> payload.userId, name |-> payload.name,
     role |-> payload.role, iat |-> now, exp |-> now + ttl, sig |-> Secret]

\* jsonwebtoken: the signature must verify and the clock must be before exp
JwtVerify(t) == t.sig = Secret /\ now < t.exp

\* ------------------------------------------------------------------ values
NoUser == [name |-> "none", password |-> BcryptHash(PlainString("none"), 0),
           role |-> "none", isActive |-> FALSE]

NoToken == [sub |-> "none", userId |-> "none", name |-> "none", role |-> "none",
            iat |-> 0, exp |-> 0, sig |-> "none"]

NoRecord == [id |-> 0, token |-> BcryptHash(PlainString("none"), 0), userId |-> "none",
             expiresAt |-> 0, userAgent |-> Undefined, ipAddress |-> Undefined]

NameOf == [u \in Users |-> IF u = "u1" THEN "alice" ELSE "bob"]

Names == {NameOf[u] : u \in Users}

\* JavaScript truthiness of an optional string
Truthy(x) == x # Undefined /\ x # ""

RECURSIVE DeleteFirst(_, _)
\* Mutant of DeleteMany: only the first record of the user is deleted.
DeleteFirst(tokens, userId) ==
    IF tokens = <<>> THEN <<>>
    ELSE IF Head(tokens).userId = userId THEN Tail(tokens)
    ELSE <<Head(tokens)>> \o DeleteFirst(Tail(tokens), userId)

\* Model.deleteMany({ userId }) and Model.deleteOne({ _id }) on the ledger
DeleteMany(tokens, userId) == SelectSeq(tokens, LAMBDA r : r.userId # userId)

DeleteOne(tokens, id) == SelectSeq(tokens, LAMBDA r : r.id # id)

\* Model.find({ userId }): the records of the user, in insertion order
Find(tokens, userId) == SelectSeq(tokens, LAMBDA r : r.userId = userId)

\* userModel.findOne({ name })
FindOneByName(name) ==
    IF \E u \in Users : users[u] # NoUser /\ users[u].name = name
    THEN CHOOSE u \in Users : users[u] # NoUser /\ users[u].name = name
    ELSE "none"

\* The requests that the server works on at the same time: one that revokes
\* (changePassword, revokeAllSessions) and one that refreshes.
Procs == {"revoker", "refresher"}

\* No call of the process is under way.  The fields of a call: where it is
\* (pc), its arguments, what it has read (account, storedTokens) and
\* selected (validToken), how it
\* ended (status, message, accessToken, deletedCount), and which of its
\* writes it has made (saved, deleted, logged).  issuedBefore is the number
\* of logins made before its deleteMany, readAfterDelete tells that the
\* ledger was read after the deleteMany of the other call.
Idle ==
    [pc |-> "idle", op |-> "none", user |-> "none", token |-> NoToken,
     userAgent |-> Undefined, ipAddress |-> Undefined, newPassword |-> "",
     account |-> NoUser, storedTokens |-> <<>>, validToken |-> NoRecord,
     status |-> "", message |-> "", accessToken |-> NoToken, deletedCount |-> 0,
     saved |-> FALSE, deleted |-> FALSE, logged |-> FALSE,
     issuedBefore |-> 0, readAfterDelete |-> FALSE]

\* the outcome of a call as it is kept in last
Call(op, user, userAgent, ipAddress) ==
    [op |-> op, user |-> user, userAgent |-> userAgent,
     ipAddress |-> ipAddress, status |-> "ok", message |-> "",
     accessToken |-> NoToken, refreshToken |-> NoToken, matched |-> NoRecord,
     deletedCount |-> 0]

\* Mutant of Unauthorized: every failure is wrapped into one generic message.
UnauthorizedGeneric(call, message) ==
    [call EXCEPT !.status = "Unauthorized", !.message = "Invalid refresh token"]

Unauthorized(call, message) ==
    [call EXCEPT !.status = "Unauthorized", !.message = message]

\* a call that ends with an exception of another kind
Throws(call, error) ==
    [call EXCEPT !.status = error.status, !.message = error.message]

NoError == [status |-> "ok", message |-> ""]

\* ---------------------------------------------------------- generateTokens
\* The tokens signed for a user and the ledger record written for them.
\* Mutant of GenerateTokens: the record expires when the access token does.
GenerateTokensShortLived(u, userAgent, ipAddress) ==
    LET payload == [sub |-> u, userId |-> u, name |-> users[u].name, role |-> users[u].role]
        accessToken == JwtSign(payload, AccessTokenTtl)
        refreshToken == JwtSign(payload, RefreshTokenTtl)
        id == Len(issued) + 1
    IN  [accessToken |-> accessToken,
         refreshToken |-> refreshToken,
         doc |-> [id |-> id,
                  token |-> BcryptHash(JwtString(refreshToken), id),
                  userId |-> u,
                  expiresAt |-> now + AccessTokenTtl,
                  userAgent |-> userAgent,
                  ipAddress |-> ipAddress]]

GenerateTokens(u, userAgent, ipAddress) ==
    LET payload == [sub |-> u, userId |-> u, name |-> users[u].name, role |-> users[u].role]
        accessToken == JwtSign(payload, AccessTokenTtl)
        refreshToken == JwtSign(payload, RefreshTokenTtl)
        id == Len(issued) + 1
    IN  [accessToken |-> accessToken,
         refreshToken |-> refreshToken,
         doc |-> [id |-> id,
                  token |-> BcryptHash(JwtString(refreshToken), id),
                  userId |-> u,
                  expiresAt |-> now + RefreshTokenTtl,
                  userAgent |-> userAgent,
                  ipAddress |-> ipAddress]]

\* ------------------------------------------------------------------- login
\* Mutant of LoginError: a disabled account is let in.
LoginErrorIgnoresDisabled(name, password) ==
    LET u == FindOneByName(name)
    IN  IF u = "none" THEN "Invalid credentials"
        ELSE IF ~BcryptCompare(PlainString(password), users[u].password)
             THEN "Invalid credentials"
        ELSE ""

\* The message of the exception that login throws, "" when it throws none.
LoginError(name, password) ==
    LET u == FindOneByName(name)
    IN  IF u = "none" THEN "Invalid credentials"
        ELSE IF ~BcryptCompare(PlainString(password), users[u].password)
             THEN "Invalid credentials"
        ELSE IF ~users[u].isActive THEN "User account is disabled"
        ELSE ""

LoginFails(name, password, userAgent, ipAddress) ==
    /\ LoginError(name, password) # ""
    /\ last' = Unauthorized(Call("login", FindOneByName(name), userAgent, ipAddress),
                            LoginError(name, password))
    /\ UNCHANGED <<elsewhere, inflight, userStats, now, users, refreshTokens, securityLogs, issued>>

LoginSucceeds(name, password, userAgent, ipAddress) ==
    LET u == FindOneByName(name)
        tokens == GenerateTokens(u, userAgent, ipAddress)
        call == Call("login", u, userAgent, ipAddress)
    IN  /\ LoginError(name, password) = ""
        /\ Len(issued) < MaxLogins
        /\ refreshTokens' = Append(refreshTokens, tokens.doc)
        /\ issued' = Append(issued,
                        [user |-> u, refreshToken |-> tokens.refreshToken,
                         accessToken |-> tokens.accessToken, userAgent |-> userAgent,
                         ipAddress |-> ipAddress, recordId |-> tokens.doc.id])
        /\ last' = [call EXCEPT !.accessToken = tokens.accessToken,
                                !.refreshToken = tokens.refreshToken]
        /\ UNCHANGED <<elsewhere, inflight, userStats, now, users, securityLogs>>

Login(name, password, userAgent, ipAddress) ==
    \/ LoginSucceeds(name, password, userAgent, ipAddress)
    \/ LoginFails(name, password, userAgent, ipAddress)

\* ------------------------------------------------------------ validateUser
\* Mutant of ValidateUser: the account only has to exist.
ValidateUserExisting(userId) ==
    userId \in Users /\ users[userId] # NoUser

\* validateUser throws unless the account exists and is active
ValidateUser(userId) ==
    userId \in Users /\ users[userId] # NoUser /\ users[userId].isActive

\* ------------------------------------------------------------ refreshToken
RECURSIVE FirstMatch(_, _)
\* The loop over storedTokens: the first record whose hash verifies the
\* presented string, NoRecord when none does.
FirstMatch(refreshToken, storedTokens) ==
    IF storedTokens = <<>> THEN NoRecord
    ELSE IF BcryptCompare(JwtString(refreshToken), Head(storedTokens).token)
         THEN Head(storedTokens)
    ELSE FirstMatch(refreshToken, Tail(storedTokens))

\* The paths of SecurityLog.metadata: the schema declares the type of metadata
\* as an object of four String paths, which mongoose makes a subdocument.
MetadataPaths ==
    {"originalIP", "originalUserAgent", "suspiciousIP", "suspiciousUserAgent"}

\* securityLogModel.create(doc): the document that is stored.  The schema is
\* strict, so a key of metadata that is not a path of the schema is dropped,
\* and a path that is not given stays undefined.
SecurityLogCreate(doc) ==
    [doc EXCEPT !.metadata =
        [path \in MetadataPaths |->
            IF path \in DOMAIN doc.metadata THEN doc.metadata[path] ELSE Undefined]]

SuspiciousActivity(userId, validToken, userAgent, ipAddress) ==
    SecurityLogCreate(
        [userId |-> userId,
         action |-> "suspicious_activity",
         description |-> "Refresh token used from different device/location",
         metadata |-> [originalIP |-> validToken.ipAddress,
                       originalUserAgent |-> validToken.userAgent,
                       suspiciousIP |-> ipAddress,
                       suspiciousUserAgent |-> userAgent]])

\* Mutant of FingerprintMismatch: the comparison is made as soon as one side
\* has a complete fingerprint.
FingerprintMismatchEitherSide(validToken, userAgent, ipAddress) ==
    LET hasStoredInfo == Truthy(validToken.userAgent) /\ Truthy(validToken.ipAddress)
        hasCurrentInfo == Truthy(userAgent) /\ Truthy(ipAddress)
        userAgentMatch == validToken.userAgent = userAgent
        ipMatch == validToken.ipAddress = ipAddress
    IN  (hasStoredInfo \/ hasCurrentInfo) /\ (~userAgentMatch \/ ~ipMatch)

\* The fingerprint check of refreshToken: TRUE when the call is an anomaly.
FingerprintMismatch(validToken, userAgent, ipAddress) ==
    LET hasStoredInfo == Truthy(validToken.userAgent) /\ Truthy(validToken.ipAddress)
        hasCurrentInfo == Truthy(userAgent) /\ Truthy(ipAddress)
        userAgentMatch == validToken.userAgent = userAgent
        ipMatch == validToken.ipAddress = ipAddress
    IN  hasStoredInfo /\ hasCurrentInfo /\ (~userAgentMatch \/ ~ipMatch)

\* refreshToken fails at one of its checks and changes nothing.
RefreshRejected(call, message) ==
    [call |-> Unauthorized(call, message), tokens |-> refreshTokens, logs |-> securityLogs]

\* Mutant of RefreshExpired: the expired record is left in the ledger.
RefreshExpiredKeepsRecord(call, validToken) ==
    [call |-> [Unauthorized(call, "Refresh token expired") EXCEPT !.matched = validToken],
     tokens |-> refreshTokens,
     logs |-> securityLogs]

\* The matched record has expired: it is deleted and the call fails.
RefreshExpired(call, validToken) ==
    [call |-> [Unauthorized(call, "Refresh token expired") EXCEPT !.matched = validToken],
     tokens |-> DeleteOne(refreshTokens, validToken.id),
     logs |-> securityLogs]

\* Mutant of RefreshAnomaly: only the matched record is revoked.
RefreshAnomalySingleRecord(call, userId, validToken, userAgent, ipAddress) ==
    [call |-> [Unauthorized(call,
                  "Suspicious activity detected. All sessions have been revoked. Please login again.")
                  EXCEPT !.matched = validToken],
     tokens |-> DeleteOne(refreshTokens, validToken.id),
     logs |-> Append(securityLogs,
                     SuspiciousActivity(userId, validToken, userAgent, ipAddress))]

\* The anomaly path: every record of the user is deleted, the event is
\* logged and the call fails.
RefreshAnomaly(call, userId, validToken, userAgent, ipAddress) ==
    [call |-> [Unauthorized(call,
                  "Suspicious activity detected. All sessions have been revoked. Please login again.")
                  EXCEPT !.matched = validToken],
     tokens |-> DeleteMany(refreshTokens, userId),
     logs |-> Append(securityLogs,
                     SuspiciousActivity(userId, validToken, userAgent, ipAddress))]

\* Mutant of RefreshAccepted: the refresh token is used up (rotate on use).
RefreshAcceptedRotating(call, userId, validToken) ==
    [call |-> [call EXCEPT !.matched = validToken,
                  !.accessToken =
                      JwtSign([sub |-> userId, userId |-> userId,
                               name |-> users[userId].name,
                               role |-> users[userId].role], AccessTokenTtl)],
     tokens |-> DeleteOne(refreshTokens, validToken.id),
     logs |-> securityLogs]

\* Mutant of RefreshAccepted: the claims are copied from the refresh token
\* that the record was written for.
RefreshAcceptedCopyingClaims(call, userId, validToken) ==
    [call |-> [call EXCEPT !.matched = validToken,
                  !.accessToken =
                      JwtSign([sub |-> userId, userId |-> userId,
                               name |-> issued[validToken.id].refreshToken.name,
                               role |-> issued[validToken.id].refreshToken.role],
                              AccessTokenTtl)],
     tokens |-> refreshTokens,
     logs |-> securityLogs]

\* The success path: a new access token is signed from the stored account.
RefreshAccepted(call, userId, validToken) ==
    [call |-> [call EXCEPT !.matched = validToken,
                  !.accessToken =
                      JwtSign([sub |-> userId, userId |-> userId,
                               name |-> users[userId].name,
                               role |-> users[userId].role], AccessTokenTtl)],
     tokens |-> refreshTokens,
     logs |-> securityLogs]

\* What refreshToken does: its outcome (call), the ledger (tokens) and the
\* security log (logs) it leaves.
RefreshTokenResult(refreshToken, userAgent, ipAddress) ==
    LET call == Call("refresh", refreshToken.sub, userAgent, ipAddress)
        userId == refreshToken.sub
        storedTokens == Find(refreshTokens, userId)
        validToken == FirstMatch(refreshToken, storedTokens)
    IN  IF ~JwtVerify(refreshToken)
        THEN RefreshRejected(call, "Invalid refresh token")
        ELSE IF ~ValidateUser(userId)
        THEN RefreshRejected(call, "User not found or inactive")
        ELSE IF Len(storedTokens) = 0
        THEN RefreshRejected(call, "No refresh token found")
        ELSE IF validToken = NoRecord
        THEN RefreshRejected(call, "Invalid refresh token")
        ELSE IF now > validToken.expiresAt
        THEN RefreshExpired(call, validToken)
        ELSE IF FingerprintMismatch(validToken, userAgent, ipAddress)
        THEN RefreshAnomaly(call, userId, validToken, userAgent, ipAddress)
        ELSE RefreshAccepted(call, userId, validToken)

RefreshToken(refreshToken, userAgent, ipAddress) ==
    LET r == RefreshTokenResult(refreshToken, userAgent, ipAddress)
    IN  /\ Len(r.logs) <= MaxEvents
        /\ refreshTokens' = r.tokens
        /\ securityLogs' = r.logs
        /\ last' = r.call
        /\ UNCHANGED <<elsewhere, inflight, userStats, now, users, issued>>

\* ------------------------------------------------------------------ logout
\* Mutant of Logout: the ledger is emptied.
LogoutEveryone(userId) ==
    /\ refreshTokens' = <<>>
    /\ last' = Call("logout", userId, Undefined, Undefined)
    /\ UNCHANGED <<elsewhere, inflight, userStats, now, users, securityLogs, issued>>

Logout(userId) ==
    /\ refreshTokens' = DeleteMany(refreshTokens, userId)
    /\ last' = Call("logout", userId, Undefined, Undefined)
    /\ UNCHANGED <<elsewhere, inflight, userStats, now, users, securityLogs, issued>>

\* ---------------------------------------------------------- changePassword
\* Mutant of ChangePasswordError: the current password is not verified.
ChangePasswordErrorUnverified(userId, currentPassword) ==
    IF users[userId] = NoUser THEN "User not found" ELSE ""

\* The message of the exception that changePassword throws, "" when none.
ChangePasswordError(userId, currentPassword) ==
    IF users[userId] = NoUser THEN "User not found"
    ELSE IF ~BcryptCompare(PlainString(currentPassword), users[userId].password)
         THEN "Current password is incorrect"
    ELSE ""

PasswordChanged(userId) ==
    SecurityLogCreate(
        [userId |-> userId, action |-> "password_changed",
         description |-> "User changed their password", metadata |-> <<>>])

ChangePasswordFails(userId, currentPassword, newPassword) ==
    /\ ChangePasswordError(userId, currentPassword) # ""
    /\ last' = Unauthorized(Call("changePassword", userId, Undefined, Undefined),
                            ChangePasswordError(userId, currentPassword))
    /\ UNCHANGED <<elsewhere, inflight, userStats, now, users, refreshTokens, securityLogs, issued>>

\* Mutant of ChangePasswordSucceeds: the sessions of the account are kept.
ChangePasswordSucceedsKeepingSessions(userId, currentPassword, newPassword) ==
    /\ ChangePasswordError(userId, currentPassword) = ""
    /\ Len(securityLogs) < MaxEvents
    /\ users' = [users EXCEPT ![userId].password = BcryptHash(PlainString(newPassword), 0)]
    /\ securityLogs' = Append(securityLogs, PasswordChanged(userId))
    /\ last' = Call("changePassword", userId, Undefined, Undefined)
    /\ UNCHANGED <<elsewhere, inflight, userStats, now, refreshTokens, issued>>

ChangePasswordSucceeds(userId, currentPassword, newPassword) ==
    /\ ChangePasswordError(userId, currentPassword) = ""
    /\ Len(securityLogs) < MaxEvents
    /\ users' = [users EXCEPT ![userId].password = BcryptHash(PlainString(newPassword), 0)]
    /\ refreshTokens' = DeleteMany(refreshTokens, userId)
    /\ securityLogs' = Append(securityLogs, PasswordChanged(userId))
    /\ last' = Call("changePassword", userId, Undefined, Undefined)
    /\ UNCHANGED <<elsewhere, inflight, userStats, now, issued>>

ChangePassword(userId, currentPassword, newPassword) ==
    \/ ChangePasswordSucceeds(userId, currentPassword, newPassword)
    \/ ChangePasswordFails(userId, currentPassword, newPassword)

\* ------------------------------------------------------- revokeAllSessions
AllTokensRevoked(userId, deletedCount) ==
    SecurityLogCreate(
        [userId |-> userId, action |-> "all_tokens_revoked",
         description |-> "User revoked all sessions",
         metadata |-> [tokensRevoked |-> deletedCount]])

\* What revokeAllSessions does for an account that exists: its outcome, the
\* ledger and the security log it leaves.
RevokeAllSessionsResult(userId) ==
    LET deletedCount == Len(refreshTokens) - Len(DeleteMany(refreshTokens, userId))
    IN  [call |-> [Call("revokeAllSessions", userId, Undefined, Undefined)
                      EXCEPT !.deletedCount = deletedCount],
         tokens |-> DeleteMany(refreshTokens, userId),
         logs |-> Append(securityLogs, AllTokensRevoked(userId, deletedCount))]

RevokeAllSessions(userId) ==
    LET r == RevokeAllSessionsResult(userId)
    IN  /\ users[userId] # NoUser
        /\ Len(securityLogs) < MaxEvents
        /\ refreshTokens' = r.tokens
        /\ securityLogs' = r.logs
        /\ last' = r.call
        /\ UNCHANGED <<elsewhere, inflight, userStats, now, users, issued>>

\* ------------------------------------------------------------------- clock
Tick ==
    /\ now < MaxTime
    /\ now' = now + 1
    /\ last' = Call("tick", "none", Undefined, Undefined)
    /\ UNCHANGED <<elsewhere, inflight, userStats, users, refreshTokens, securityLogs, issued>>

\* --------------------------------------------------------------- TTL index
\* RefreshTokenSchema.index({ expiresAt: 1 }, { expireAfterSeconds: 0 }): the
\* database removes a record once its expiresAt has been reached.
TtlExpire(id) ==
    /\ \E k \in 1..Len(refreshTokens) :
          refreshTokens[k].id = id /\ refreshTokens[k].expiresAt <= now
    /\ refreshTokens' = DeleteOne(refreshTokens, id)
    /\ last' = Call("ttl", "none", Undefined, Undefined)
    /\ UNCHANGED <<elsewhere, inflight, userStats, now, users, securityLogs, issued>>

\* ---------------------------------------------------------------- register
\* An ObjectId is new: the ids that no account, token, record or event has.
FreshIds ==
    { u \in Users :
        /\ users[u] = NoUser
        /\ u \notin userStats
        /\ \A i \in 1..Len(issued) : issued[i].user # u
        /\ \A k \in 1..Len(refreshTokens) : refreshTokens[k].userId # u
        /\ \A k \in 1..Len(securityLogs) : securityLogs[k].userId # u }

RegisterFails(name, password) ==
    /\ FindOneByName(name) # "none"
    /\ last' = Throws(Call("register", FindOneByName(name), Undefined, Undefined),
                      [status |-> "Conflict",
                       message |-> "User with this name already exists"])
    /\ UNCHANGED <<elsewhere, inflight, userStats, now, users, refreshTokens, securityLogs, issued>>

\* Mutant of RegisterSucceeds: the account is created and logged in at once.
RegisterSucceedsWithSession(name, password) ==
    /\ FindOneByName(name) = "none"
    /\ FreshIds # {}
    /\ LET u == CHOOSE id \in FreshIds : TRUE
           account == [name |-> name,
                       password |-> BcryptHash(PlainString(password), 0),
                       role |-> "user",
                       isActive |-> TRUE]
           payload == [sub |-> u, userId |-> u, name |-> name, role |-> "user"]
       IN  /\ users' = [users EXCEPT ![u] = account]
           /\ userStats' = userStats \cup {u}
           /\ last' = [Call("register", u, Undefined, Undefined)
                          EXCEPT !.accessToken = JwtSign(payload, AccessTokenTtl)]
    /\ UNCHANGED <<elsewhere, inflight, now, refreshTokens, securityLogs, issued>>

RegisterSucceeds(name, password) ==
    /\ FindOneByName(name) = "none"
    /\ FreshIds # {}
    /\ LET u == CHOOSE id \in FreshIds : TRUE
       IN  /\ users' = [users EXCEPT ![u] =
                           [name |-> name,
                            password |-> BcryptHash(PlainString(password), 0),
                            role |-> "user",
                            isActive |-> TRUE]]
           /\ userStats' = userStats \cup {u}
           /\ last' = Call("register", u, Undefined, Undefined)
    /\ UNCHANGED <<elsewhere, inflight, now, refreshTokens, securityLogs, issued>>

Register(name, password) ==
    \/ RegisterSucceeds(name, password)
    \/ RegisterFails(name, password)

\* ------------------------------------------------------- updateUserProfile
\* The exception that updateUserProfile throws, NoError when it throws none.
UpdateUserProfileError(userId, dto) ==
    IF users[userId] = NoUser
    THEN [status |-> "NotFound", message |-> "User not found"]
    ELSE IF /\ Truthy(dto.name) /\ dto.name # users[userId].name
            /\ FindOneByName(dto.name) # "none"
         THEN [status |-> "Conflict", message |-> "Username already taken"]
    ELSE NoError

UpdateUserProfileFails(userId, dto) ==
    /\ UpdateUserProfileError(userId, dto) # NoError
    /\ last' = Throws(Call("updateUserProfile", userId, Undefined, Undefined),
                      UpdateUserProfileError(userId, dto))
    /\ UNCHANGED <<elsewhere, inflight, userStats, now, users, refreshTokens, securityLogs, issued>>

UpdateUserProfileSucceeds(userId, dto) ==
    /\ UpdateUserProfileError(userId, dto) = NoError
    /\ users' = [users EXCEPT
                    ![userId].name = IF Truthy(dto.name) THEN dto.name ELSE @,
                    ![userId].password =
                        IF Truthy(dto.password)
                        THEN BcryptHash(PlainString(dto.password), 0) ELSE @]
    /\ last' = Call("updateUserProfile", userId, Undefined, Undefined)
    /\ UNCHANGED <<elsewhere, inflight, userStats, now, refreshTokens, securityLogs, issued>>

UpdateUserProfile(userId, dto) ==
    \/ UpdateUserProfileSucceeds(userId, dto)
    \/ UpdateUserProfileFails(userId, dto)

\* ------------------------------------------------------- deleteUserAccount
ConfirmationPhrase == "quiero borrar mi cuenta"

DeleteUserAccountError(userId, confirmation) ==
    IF confirmation # ConfirmationPhrase
    THEN [status |-> "BadRequest", message |-> "Invalid confirmation phrase"]
    ELSE IF users[userId] = NoUser
         THEN [status |-> "NotFound", message |-> "User not found"]
    ELSE NoError

DeleteUserAccountFails(userId, confirmation) ==
    /\ DeleteUserAccountError(userId, confirmation) # NoError
    /\ last' = Throws(Call("deleteUserAccount", userId, Undefined, Undefined),
                      DeleteUserAccountError(userId, confirmation))
    /\ UNCHANGED <<elsewhere, inflight, userStats, now, users, refreshTokens, securityLogs, issued>>

\* The statistics document and the account are deleted; the ledger is not
\* touched.
DeleteUserAccountSucceeds(userId, confirmation) ==
    /\ DeleteUserAccountError(userId, confirmation) = NoError
    /\ userStats' = userStats \ {userId}
    /\ users' = [users EXCEPT ![userId] = NoUser]
    /\ last' = Call("deleteUserAccount", userId, Undefined, Undefined)
    /\ UNCHANGED <<elsewhere, inflight, now, refreshTokens, securityLogs, issued>>

DeleteUserAccount(userId, confirmation) ==
    \/ DeleteUserAccountSucceeds(userId, confirmation)
    \/ DeleteUserAccountFails(userId, confirmation)

\* ------------------------------------------------- account administration
\* The fields role and isActive of an account are written by no service:
\* they are set in the users collection by the operator of the database.
Roles == {"user", "admin"}

SetRole(userId, role) ==
    /\ users[userId] # NoUser
    /\ users[userId].role # role
    /\ users' = [users EXCEPT ![userId].role = role]
    /\ last' = Call("setRole", userId, Undefined, Undefined)
    /\ UNCHANGED <<elsewhere, inflight, userStats, now, refreshTokens, securityLogs, issued>>

SetIsActive(userId, isActive) ==
    /\ users[userId] # NoUser
    /\ users[userId].isActive # isActive
    /\ users' = [users EXCEPT ![userId].isActive = isActive]
    /\ last' = Call("setIsActive", userId, Undefined, Undefined)
    /\ UNCHANGED <<elsewhere, inflight, userStats, now, refreshTokens, securityLogs, issued>>

\* ------------------------------------------------- the calls, await by await
\* A call ends: with an exception (status, message) or with its answer.
Ends(call, status, message) ==
    [call EXCEPT !.pc = "done", !.status = status, !.message = message]

\* Mutant of ChangePasswordBegin: the sessions are revoked before the
\* password is written.
ChangePasswordBeginRevokingFirst(userId, currentPassword, newPassword) ==
    LET call == [Idle EXCEPT !.op = "changePassword", !.user = userId,
                             !.newPassword = newPassword]
        error == ChangePasswordError(userId, currentPassword)
    IN  /\ inflight["revoker"].pc = "idle"
        /\ inflight' = [inflight EXCEPT !["revoker"] =
                           IF error # "" THEN Ends(call, "Unauthorized", error)
                           ELSE [call EXCEPT !.pc = "deleteMany"]]
        /\ UNCHANGED <<elsewhere, now, users, userStats, refreshTokens, securityLogs, issued, last>>

\* changePassword up to its first write: findById and bcrypt.compare
ChangePasswordBegin(userId, currentPassword, newPassword) ==
    LET call == [Idle EXCEPT !.op = "changePassword", !.user = userId,
                             !.newPassword = newPassword]
        error == ChangePasswordError(userId, currentPassword)
    IN  /\ inflight["revoker"].pc = "idle"
        /\ inflight' = [inflight EXCEPT !["revoker"] =
                           IF error # "" THEN Ends(call, "Unauthorized", error)
                           ELSE [call EXCEPT !.pc = "save"]]
        /\ UNCHANGED <<elsewhere, now, users, userStats, refreshTokens, securityLogs, issued, last>>

\* user.password = await bcrypt.hash(newPassword, 10); await user.save()
ChangePasswordSave ==
    LET call == inflight["revoker"]
    IN  /\ call.op = "changePassword" /\ call.pc = "save"
        /\ users' = [users EXCEPT ![call.user].password =
                                      BcryptHash(PlainString(call.newPassword), 0)]
        /\ inflight' = [inflight EXCEPT !["revoker"] =
                           [call EXCEPT !.pc = "deleteMany", !.saved = TRUE]]
        /\ UNCHANGED <<elsewhere, now, userStats, refreshTokens, securityLogs, issued, last>>

\* user.save() rejects (the database refuses the write): the call ends here
ChangePasswordSaveFails ==
    LET call == inflight["revoker"]
    IN  /\ call.op = "changePassword" /\ call.pc = "save"
        /\ inflight' = [inflight EXCEPT !["revoker"] =
                           Ends(call, "Error", "save failed")]
        /\ UNCHANGED <<elsewhere, now, users, userStats, refreshTokens, securityLogs, issued, last>>

\* await this.refreshTokenModel.deleteMany({ userId: user._id })
ChangePasswordDeleteMany ==
    LET call == inflight["revoker"]
    IN  /\ call.op = "changePassword" /\ call.pc = "deleteMany"
        /\ refreshTokens' = DeleteMany(refreshTokens, call.user)
        /\ inflight' = [inflight EXCEPT !["revoker"] =
                           [call EXCEPT !.pc = "create", !.deleted = TRUE,
                                        !.issuedBefore = Len(issued)]]
        /\ UNCHANGED <<elsewhere, now, users, userStats, securityLogs, issued, last>>

\* Mutant of ChangePasswordCreateLog: the event takes the place of the log.
ChangePasswordCreateLogReplacing ==
    LET call == inflight["revoker"]
    IN  /\ call.op = "changePassword" /\ call.pc = "create"
        /\ securityLogs' = <<PasswordChanged(call.user)>>
        /\ inflight' = [inflight EXCEPT !["revoker"] =
                           Ends([call EXCEPT !.logged = TRUE], "ok", "")]
        /\ UNCHANGED <<elsewhere, now, users, userStats, refreshTokens, issued, last>>

\* await this.securityLogModel.create({ action: 'password_changed' })
ChangePasswordCreateLog ==
    LET call == inflight["revoker"]
    IN  /\ call.op = "changePassword" /\ call.pc = "create"
        /\ securityLogs' = Append(securityLogs, PasswordChanged(call.user))
        /\ inflight' = [inflight EXCEPT !["revoker"] =
                           Ends([call EXCEPT !.logged = TRUE], "ok", "")]
        /\ UNCHANGED <<elsewhere, now, users, userStats, refreshTokens, issued, last>>

\* revokeAllSessions: findById
RevokeAllSessionsBegin(userId) ==
    LET call == [Idle EXCEPT !.op = "revokeAllSessions", !.user = userId]
    IN  /\ inflight["revoker"].pc = "idle"
        /\ inflight' = [inflight EXCEPT !["revoker"] =
                           IF users[userId] = NoUser
                           THEN Ends(call, "Unauthorized", "User not found")
                           ELSE [call EXCEPT !.pc = "deleteMany"]]
        /\ UNCHANGED <<elsewhere, now, users, userStats, refreshTokens, securityLogs, issued, last>>

\* const result = await this.refreshTokenModel.deleteMany({ userId })
RevokeAllSessionsDeleteMany ==
    LET call == inflight["revoker"]
    IN  /\ call.op = "revokeAllSessions" /\ call.pc = "deleteMany"
        /\ refreshTokens' = DeleteMany(refreshTokens, call.user)
        /\ inflight' = [inflight EXCEPT !["revoker"] =
                           [call EXCEPT !.pc = "create", !.deleted = TRUE,
                                        !.issuedBefore = Len(issued),
                                        !.deletedCount =
                                            Len(refreshTokens)
                                              - Len(DeleteMany(refreshTokens, call.user))]]
        /\ UNCHANGED <<elsewhere, now, users, userStats, securityLogs, issued, last>>

\* await this.securityLogModel.create({ action: 'all_tokens_revoked' })
RevokeAllSessionsCreateLog ==
    LET call == inflight["revoker"]
    IN  /\ call.op = "revokeAllSessions" /\ call.pc = "create"
        /\ securityLogs' = Append(securityLogs,
                                  AllTokensRevoked(call.user, call.deletedCount))
        /\ inflight' = [inflight EXCEPT !["revoker"] =
                           Ends([call EXCEPT !.logged = TRUE], "ok", "")]
        /\ UNCHANGED <<elsewhere, now, users, userStats, refreshTokens, issued, last>>

\* logout: its one await is the deleteMany
LogoutDeleteMany(userId) ==
    LET call == [Idle EXCEPT !.op = "logout", !.user = userId]
    IN  /\ inflight["revoker"].pc = "idle"
        /\ refreshTokens' = DeleteMany(refreshTokens, userId)
        /\ inflight' = [inflight EXCEPT !["revoker"] =
                           Ends([call EXCEPT !.deleted = TRUE,
                                             !.issuedBefore = Len(issued)], "ok", "")]
        /\ UNCHANGED <<elsewhere, now, users, userStats, securityLogs, issued, last>>

\* refreshToken: jwtService.verify and validateUser (findById)
RefreshTokenBegin(refreshToken, userAgent, ipAddress) ==
    LET call == [Idle EXCEPT !.op = "refresh", !.user = refreshToken.sub,
                             !.token = refreshToken, !.userAgent = userAgent,
                             !.ipAddress = ipAddress]
    IN  /\ inflight["refresher"].pc = "idle"
        /\ inflight' = [inflight EXCEPT !["refresher"] =
                           IF ~JwtVerify(refreshToken)
                           THEN Ends(call, "Unauthorized", "Invalid refresh token")
                           ELSE IF ~ValidateUser(refreshToken.sub)
                           THEN Ends(call, "Unauthorized", "User not found or inactive")
                           ELSE [call EXCEPT !.pc = "find",
                                             !.account = users[refreshToken.sub]]]
        /\ UNCHANGED <<elsewhere, now, users, userStats, refreshTokens, securityLogs, issued, last>>

\* const storedTokens = await this.refreshTokenModel.find({ userId })
RefreshTokenFind ==
    LET call == inflight["refresher"]
        storedTokens == Find(refreshTokens, call.user)
        read == [call EXCEPT !.storedTokens = storedTokens,
                             !.readAfterDelete =
                                 /\ inflight["revoker"].deleted
                                 /\ inflight["revoker"].user = call.user]
    IN  /\ call.op = "refresh" /\ call.pc = "find"
        /\ inflight' = [inflight EXCEPT !["refresher"] =
                           IF Len(storedTokens) = 0
                           THEN Ends(read, "Unauthorized", "No refresh token found")
                           ELSE [read EXCEPT !.pc = "compare"]]
        /\ UNCHANGED <<elsewhere, now, users, userStats, refreshTokens, securityLogs, issued, last>>

\* The loop of bcrypt.compare over what was read, the expiry and the
\* fingerprint check, up to the write that the call makes next, or to its end.
RefreshTokenCompare ==
    LET call == inflight["refresher"]
        validToken == FirstMatch(call.token, call.storedTokens)
        found == [call EXCEPT !.validToken = validToken]
    IN  /\ call.op = "refresh" /\ call.pc = "compare"
        /\ IF validToken = NoRecord
           THEN /\ inflight' = [inflight EXCEPT !["refresher"] =
                                   Ends(found, "Unauthorized", "Invalid refresh token")]
                /\ UNCHANGED refreshTokens
           ELSE IF now > validToken.expiresAt
           THEN /\ refreshTokens' = DeleteOne(refreshTokens, validToken.id)
                /\ inflight' = [inflight EXCEPT !["refresher"] =
                                   Ends(found, "Unauthorized", "Refresh token expired")]
           ELSE IF FingerprintMismatch(validToken, call.userAgent, call.ipAddress)
           THEN /\ refreshTokens' = DeleteMany(refreshTokens, call.user)
                /\ inflight' = [inflight EXCEPT !["refresher"] =
                                   [found EXCEPT !.pc = "create", !.deleted = TRUE,
                                                 !.issuedBefore = Len(issued)]]
           ELSE /\ inflight' = [inflight EXCEPT !["refresher"] =
                                   Ends([found EXCEPT !.accessToken =
                                            JwtSign([sub |-> call.user, userId |-> call.user,
                                                     name |-> call.account.name,
                                                     role |-> call.account.role],
                                                    AccessTokenTtl)], "ok", "")]
                /\ UNCHANGED refreshTokens
        /\ UNCHANGED <<elsewhere, now, users, userStats, securityLogs, issued, last>>

\* await this.securityLogModel.create({ action: 'suspicious_activity' }),
\* then the exception
RefreshTokenCreateLog ==
    LET call == inflight["refresher"]
    IN  /\ call.op = "refresh" /\ call.pc = "create"
        /\ securityLogs' = Append(securityLogs,
                                  SuspiciousActivity(call.user, call.validToken,
                                                     call.userAgent, call.ipAddress))
        /\ inflight' = [inflight EXCEPT !["refresher"] =
                           Ends([call EXCEPT !.logged = TRUE], "Unauthorized",
                                "Suspicious activity detected. All sessions have been revoked. Please login again.")]
        /\ UNCHANGED <<elsewhere, now, users, userStats, refreshTokens, issued, last>>

\* ------------------------------------- register and updateUserProfile, await by await
\* The requests of the other services that the server works on at the same
\* time.
Workers == {"w1", "w2"}

\* No call of the worker is under way.
Resting == [pc |-> "idle", op |-> "none", status |-> "", message |-> ""]

\* a worker that can take its next request
Free(w) == calls[w].pc \in {"idle", "done"}

\* what user.save() throws when the unique index on name refuses the write
DuplicateKey == [status |-> "MongoServerError", message |-> "E11000 duplicate key error"]

\* the unique index on User.name: some other account holds the name
NameIndexed(name, userId) ==
    \E u \in Users : u # userId /\ users[u] # NoUser /\ users[u].name = name

\* register: await this.userModel.findOne({ name: dto.name })
RegisterFindOne(w, name, password) ==
    LET call == [pc |-> "save", op |-> "register", user |-> "none", name |-> name,
                 password |-> password, status |-> "", message |-> ""]
    IN  /\ Free(w)
        /\ calls' = [calls EXCEPT ![w] =
                        IF FindOneByName(name) # "none"
                        THEN [call EXCEPT !.pc = "done", !.status = "Conflict",
                                          !.message = "User with this name already exists"]
                        ELSE call]
        /\ UNCHANGED <<now, users, userStats, refreshTokens, securityLogs, issued, last,
                       inflight, systemPrompts, uniqueActiveIndex, promptCache,
                       chatSessions, requestCounts>>

\* register: await user.save(), which the unique index on name can refuse
RegisterSave(w) ==
    LET call == calls[w]
    IN  /\ call.op = "register" /\ call.pc = "save"
        /\ IF NameIndexed(call.name, "none")
           THEN /\ calls' = [calls EXCEPT ![w] =
                                [call EXCEPT !.pc = "done",
                                             !.status = DuplicateKey.status,
                                             !.message = DuplicateKey.message]]
                /\ UNCHANGED users
           ELSE /\ FreshIds # {}
                /\ LET u == CHOOSE id \in FreshIds : TRUE
                   IN  /\ users' = [users EXCEPT ![u] =
                                       [name |-> call.name,
                                        password |->
                                            BcryptHash(PlainString(call.password), 0),
                                        role |-> "user",
                                        isActive |-> TRUE]]
                       /\ calls' = [calls EXCEPT ![w] =
                                       [call EXCEPT !.pc = "saveStats", !.user = u]]
        /\ UNCHANGED <<now, userStats, refreshTokens, securityLogs, issued, last,
                       inflight, systemPrompts, uniqueActiveIndex, promptCache,
                       chatSessions, requestCounts>>

\* register: await userStats.save()
RegisterSaveStats(w) ==
    LET call == calls[w]
    IN  /\ call.op = "register" /\ call.pc = "saveStats"
        /\ userStats' = userStats \cup {call.user}
        /\ calls' = [calls EXCEPT ![w] = [call EXCEPT !.pc = "done", !.status = "ok"]]
        /\ UNCHANGED <<now, users, refreshTokens, securityLogs, issued, last,
                       inflight, systemPrompts, uniqueActiveIndex, promptCache,
                       chatSessions, requestCounts>>

\* updateUserProfile: await this.userModel.findById(userId).  The call keeps
\* the document it has read (doc); nameModified tells that save() writes the
\* name.
UpdateUserProfileFindById(w, userId, dto) ==
    LET call == [pc |-> "save", op |-> "updateUserProfile", user |-> userId,
                 name |-> dto.name, password |-> dto.password, doc |-> users[userId],
                 nameModified |-> FALSE, status |-> "", message |-> ""]
    IN  /\ Free(w)
        /\ calls' = [calls EXCEPT ![w] =
                        IF users[userId] = NoUser
                        THEN [call EXCEPT !.pc = "done", !.status = "NotFound",
                                          !.message = "User not found"]
                        ELSE IF Truthy(dto.name) /\ dto.name # users[userId].name
                        THEN [call EXCEPT !.pc = "findOne"]
                        ELSE call]
        /\ UNCHANGED <<now, users, userStats, refreshTokens, securityLogs, issued, last,
                       inflight, systemPrompts, uniqueActiveIndex, promptCache,
                       chatSessions, requestCounts>>

\* updateUserProfile: await this.userModel.findOne({ name: dto.name })
UpdateUserProfileFindOne(w) ==
    LET call == calls[w]
    IN  /\ call.op = "updateUserProfile" /\ call.pc = "findOne"
        /\ calls' = [calls EXCEPT ![w] =
                        IF FindOneByName(call.name) # "none"
                        THEN [call EXCEPT !.pc = "done", !.status = "Conflict",
                                          !.message = "Username already taken"]
                        ELSE [call EXCEPT !.pc = "save", !.doc.name = call.name,
                                          !.nameModified = TRUE]]
        /\ UNCHANGED <<now, users, userStats, refreshTokens, securityLogs, issued, last,
                       inflight, systemPrompts, uniqueActiveIndex, promptCache,
                       chatSessions, requestCounts>>

\* updateUserProfile: await user.save(), which writes the paths that the call
\* has modified and which the unique index on name can refuse
UpdateUserProfileSave(w) ==
    LET call == calls[w]
    IN  /\ call.op = "updateUserProfile" /\ call.pc = "save"
        /\ IF call.nameModified /\ NameIndexed(call.doc.name, call.user)
           THEN /\ calls' = [calls EXCEPT ![w] =
                                [call EXCEPT !.pc = "done",
                                             !.status = DuplicateKey.status,
                                             !.message = DuplicateKey.message]]
                /\ UNCHANGED users
           ELSE /\ users' = [users EXCEPT
                               ![call.user].name =
                                   IF call.nameModified THEN call.doc.name ELSE @,
                               ![call.user].password =
                                   IF Truthy(call.password)
                                   THEN BcryptHash(PlainString(call.password), 0)
                                   ELSE @]
                /\ calls' = [calls EXCEPT ![w] =
                                [call EXCEPT !.pc = "done", !.status = "ok"]]
        /\ UNCHANGED <<now, userStats, refreshTokens, securityLogs, issued, last,
                       inflight, systemPrompts, uniqueActiveIndex, promptCache,
                       chatSessions, requestCounts>>

\* ------------------------------------------------------- the system prompts
\* the ids of the configurations in the database, and an id that none has
PromptIds == {"p1", "p2", "p3"}
MissingPromptId == "p9"

\* null, as the fields of the cache hold it, and a date that is null
Null == "null"
NoDate == -1

\* the text that systemPromptCompiler.compile made of every configuration
CompiledPrompt == [p1 |-> "prompt of p1", p2 |-> "prompt of p2", p3 |-> "prompt of p3"]

\* TTL of SystemPromptCacheService, in ticks of the clock
CacheTtl == 1

\* the cache after construction and after invalidateCache()
EmptyCache == [cachedPrompt |-> Null, cachedVersion |-> Null, lastUpdate |-> NoDate]

\* isCacheValid()
IsCacheValid == promptCache.lastUpdate # NoDate /\ now - promptCache.lastUpdate < CacheTtl

\* systemPromptModel.findOne({ isActive: true }): an active configuration,
\* Null when there is none
ActivePrompts == { id \in PromptIds : systemPrompts[id].isActive }

\* the other state, which no step of the prompt services touches
PromptFrame ==
    <<users, userStats, refreshTokens, securityLogs, issued, last, inflight,
      uniqueActiveIndex, chatSessions, requestCounts>>

\* activateSystemPrompt: await this.systemPromptModel.findById(id).exec()
ActivateSystemPromptFindById(w, id) ==
    LET call == [pc |-> "updateMany", op |-> "activateSystemPrompt", id |-> id,
                 status |-> "", message |-> ""]
    IN  /\ Free(w)
        /\ calls' = [calls EXCEPT ![w] =
                        IF id \notin PromptIds
                        THEN [call EXCEPT !.pc = "done", !.status = "NotFound",
                                          !.message = "System prompt not found"]
                        ELSE IF systemPrompts[id].isActive
                        THEN [call EXCEPT !.pc = "done", !.status = "Conflict",
                                          !.message = "System prompt is already active"]
                        ELSE call]
        /\ UNCHANGED <<now, systemPrompts, promptCache, PromptFrame>>

\* activateSystemPrompt: await updateMany({ isActive: true }, { isActive: false })
ActivateSystemPromptUpdateMany(w) ==
    LET call == calls[w]
    IN  /\ call.op = "activateSystemPrompt" /\ call.pc = "updateMany"
        /\ systemPrompts' = [id \in PromptIds |->
                                [systemPrompts[id] EXCEPT !.isActive = FALSE]]
        /\ calls' = [calls EXCEPT ![w] = [call EXCEPT !.pc = "save"]]
        /\ UNCHANGED <<now, promptCache, PromptFrame>>

\* activateSystemPrompt: await prompt.save() with isActive = true and
\* activatedAt = new Date().  When the database has the unique partial index
\* on isActive it refuses the write while another configuration is active.
ActivateSystemPromptSave(w) ==
    LET call == calls[w]
    IN  /\ call.op = "activateSystemPrompt" /\ call.pc = "save"
        /\ IF uniqueActiveIndex /\ ActivePrompts \ {call.id} # {}
           THEN /\ calls' = [calls EXCEPT ![w] =
                                [call EXCEPT !.pc = "done",
                                             !.status = DuplicateKey.status,
                                             !.message = DuplicateKey.message]]
                /\ UNCHANGED systemPrompts
           ELSE /\ systemPrompts' = [systemPrompts EXCEPT ![call.id].isActive = TRUE,
                                                          ![call.id].activatedAt = now]
                /\ calls' = [calls EXCEPT ![w] = [call EXCEPT !.pc = "invalidate"]]
        /\ UNCHANGED <<now, promptCache, PromptFrame>>

\* activateSystemPrompt after the save: this.systemPromptCache.invalidateCache()
\* and the answer
ActivateSystemPromptInvalidateCache(w) ==
    LET call == calls[w]
    IN  /\ call.op = "activateSystemPrompt" /\ call.pc = "invalidate"
        /\ promptCache' = EmptyCache
        /\ calls' = [calls EXCEPT ![w] = [call EXCEPT !.pc = "done", !.status = "ok"]]
        /\ UNCHANGED <<now, systemPrompts, PromptFrame>>

\* getActivePrompt up to its first await: the cached prompt when the cache
\* holds one that is valid, a call of refreshCache otherwise
GetActivePrompt(w) ==
    LET call == [pc |-> "findOne", op |-> "getActivePrompt", read |-> Null,
                 result |-> Null, status |-> "", message |-> ""]
    IN  /\ Free(w)
        /\ calls' = [calls EXCEPT ![w] =
                        IF promptCache.cachedPrompt # Null /\ IsCacheValid
                        THEN [call EXCEPT !.pc = "done", !.status = "ok",
                                          !.result = promptCache.cachedPrompt]
                        ELSE call]
        /\ UNCHANGED <<now, systemPrompts, promptCache, PromptFrame>>

\* refreshCache: await this.systemPromptModel.findOne({ isActive: true }).exec()
RefreshCacheFindOne(w) ==
    LET call == calls[w]
    IN  /\ call.op = "getActivePrompt" /\ call.pc = "findOne"
        /\ \/ /\ ActivePrompts = {}
              /\ calls' = [calls EXCEPT ![w] = [call EXCEPT !.pc = "write"]]
           \/ \E id \in ActivePrompts :
                 calls' = [calls EXCEPT ![w] = [call EXCEPT !.pc = "write", !.read = id]]
        /\ UNCHANGED <<now, systemPrompts, promptCache, PromptFrame>>

\* refreshCache after its await: the fields of the cache are written from
\* the configuration that was read
RefreshCacheWrite(w) ==
    LET call == calls[w]
    IN  /\ call.op = "getActivePrompt" /\ call.pc = "write"
        /\ promptCache' =
              IF call.read = Null THEN EmptyCache
              ELSE [cachedPrompt |-> systemPrompts[call.read].compiledPrompt,
                    cachedVersion |-> systemPrompts[call.read].version,
                    lastUpdate |-> now]
        /\ calls' = [calls EXCEPT ![w] = [call EXCEPT !.pc = "return"]]
        /\ UNCHANGED <<now, systemPrompts, PromptFrame>>

\* getActivePrompt after await this.refreshCache(): it reads this.cachedPrompt
GetActivePromptReturn(w) ==
    LET call == calls[w]
    IN  /\ call.op = "getActivePrompt" /\ call.pc = "return"
        /\ calls' = [calls EXCEPT ![w] =
                        IF promptCache.cachedPrompt = Null
                        THEN [call EXCEPT !.pc = "done", !.status = "Error",
                                          !.message = "No active system prompt found"]
                        ELSE [call EXCEPT !.pc = "done", !.status = "ok",
                                          !.result = promptCache.cachedPrompt]]
        /\ UNCHANGED <<now, systemPrompts, promptCache, PromptFrame>>

\* ------------------------------------------------------- the chat sessions
\* the templates of the database: t1 is active, t2 is not, t9 does not exist
TemplateIds == {"t1", "t2"}
MissingTemplateId == "t9"
TemplateIsActive == [t \in TemplateIds |-> t = "t1"]

\* the number of chat sessions that the database takes
MaxSessions == 3

\* chatSessionModel.findOne({ userId, isActive: true }) finds a session
HasActiveSession(userId) ==
    \E k \in 1..Len(chatSessions) :
        chatSessions[k].userId = userId /\ chatSessions[k].isActive

\* the other state, which no step of ChatSessionService touches
ChatFrame ==
    <<now, users, userStats, refreshTokens, securityLogs, issued, last, inflight,
      systemPrompts, uniqueActiveIndex, promptCache, requestCounts>>

\* startSession: await this.templateService.findById(dto.templateId), and the
\* check of template.isActive
StartSessionFindTemplate(w, userId, templateId) ==
    LET call == [pc |-> "findOne", op |-> "startSession", user |-> userId,
                 templateId |-> templateId, session |-> 0,
                 status |-> "", message |-> ""]
    IN  /\ Free(w)
        /\ calls' = [calls EXCEPT ![w] =
                        IF templateId \notin TemplateIds
                        THEN [call EXCEPT !.pc = "done", !.status = "NotFound",
                                          !.message = "Template not found"]
                        ELSE IF ~TemplateIsActive[templateId]
                        THEN [call EXCEPT !.pc = "done", !.status = "BadRequest",
                                          !.message = "Template is not active"]
                        ELSE call]
        /\ UNCHANGED <<chatSessions, ChatFrame>>

\* startSession: await this.chatSessionModel.findOne({ userId, isActive: true })
StartSessionFindOne(w) ==
    LET call == calls[w]
    IN  /\ call.op = "startSession" /\ call.pc = "findOne"
        /\ calls' = [calls EXCEPT ![w] =
                        IF HasActiveSession(call.user)
                        THEN [call EXCEPT
                                !.pc = "done", !.status = "BadRequest",
                                !.message =
                                    "You already have an active session. Please end it first."]
                        ELSE [call EXCEPT !.pc = "save"]]
        /\ UNCHANGED <<chatSessions, ChatFrame>>

\* startSession: await session.save(); no index of ChatSessionSchema is unique
StartSessionSave(w) ==
    LET call == calls[w]
    IN  /\ call.op = "startSession" /\ call.pc = "save"
        /\ Len(chatSessions) < MaxSessions
        /\ chatSessions' = Append(chatSessions,
                                  [userId |-> call.user, templateId |-> call.templateId,
                                   isActive |-> TRUE])
        /\ calls' = [calls EXCEPT ![w] =
                        [call EXCEPT !.pc = "done", !.status = "ok",
                                     !.session = Len(chatSessions) + 1]]
        /\ UNCHANGED ChatFrame

\* The exception that endSession throws, NoError when it throws none.
EndSessionError(sessionId) ==
    IF sessionId \notin 1..Len(chatSessions)
    THEN [status |-> "NotFound", message |-> "Session not found"]
    ELSE IF ~chatSessions[sessionId].isActive
    THEN [status |-> "BadRequest", message |-> "Session already ended"]
    ELSE NoError

\* endSession, taken whole
EndSession(w, sessionId) ==
    LET call == [pc |-> "done", op |-> "endSession", user |-> "none",
                 templateId |-> "none", session |-> sessionId,
                 status |-> EndSessionError(sessionId).status,
                 message |-> EndSessionError(sessionId).message]
    IN  /\ Free(w)
        /\ calls' = [calls EXCEPT ![w] = call]
        /\ chatSessions' =
              IF EndSessionError(sessionId) = NoError
              THEN [chatSessions EXCEPT ![sessionId].isActive = FALSE]
              ELSE chatSessions
        /\ UNCHANGED ChatFrame

\* ------------------------------------------------------------ RateLimitGuard
\* RATE_LIMIT_TTL, in ticks of the clock, and RATE_LIMIT_MAX
RateLimitTtl == 1
RateLimitMax == 2

\* this.requestCounts.get(clientIp) of a client that has no entry
NoClient == [count |-> 0, resetTime |-> -1]

TooManyRequests ==
    [status |-> "TooManyRequests", message |-> "Rate limit exceeded. Please try again later."]

\* Mutant of CanActivateResult: the request that finds the count at
\* maxRequests is still let in.
CanActivateOneMore(clientIp) ==
    LET clientData == requestCounts[clientIp]
        call == Call("canActivate", "none", Undefined, clientIp)
    IN  IF clientData = NoClient \/ now > clientData.resetTime
        THEN [call |-> call,
              counts |-> [requestCounts EXCEPT ![clientIp] =
                             [count |-> 1, resetTime |-> now + RateLimitTtl]]]
        ELSE IF clientData.count > RateLimitMax
        THEN [call |-> Throws(call, TooManyRequests), counts |-> requestCounts]
        ELSE [call |-> call,
              counts |-> [requestCounts EXCEPT ![clientIp].count = @ + 1]]

\* Mutant of CanActivateResult: a request that is rejected moves resetTime.
CanActivateExtendingBlock(clientIp) ==
    LET clientData == requestCounts[clientIp]
        call == Call("canActivate", "none", Undefined, clientIp)
    IN  IF clientData = NoClient \/ now > clientData.resetTime
        THEN [call |-> call,
              counts |-> [requestCounts EXCEPT ![clientIp] =
                             [count |-> 1, resetTime |-> now + RateLimitTtl]]]
        ELSE IF clientData.count >= RateLimitMax
        THEN [call |-> Throws(call, TooManyRequests),
              counts |-> [requestCounts EXCEPT ![clientIp].resetTime = now + RateLimitTtl]]
        ELSE [call |-> call,
              counts |-> [requestCounts EXCEPT ![clientIp].count = @ + 1]]

\* What canActivate does for a request of a client: its outcome and the map
\* of the counters that it leaves.
CanActivateResult(clientIp) ==
    LET clientData == requestCounts[clientIp]
        call == Call("canActivate", "none", Undefined, clientIp)
    IN  IF clientData = NoClient \/ now > clientData.resetTime
        THEN [call |-> call,
              counts |-> [requestCounts EXCEPT ![clientIp] =
                             [count |-> 1, resetTime |-> now + RateLimitTtl]]]
        ELSE IF clientData.count >= RateLimitMax
        THEN [call |-> Throws(call, TooManyRequests), counts |-> requestCounts]
        ELSE [call |-> call,
              counts |-> [requestCounts EXCEPT ![clientIp].count = @ + 1]]

CanActivate(clientIp) ==
    /\ requestCounts' = CanActivateResult(clientIp).counts
    /\ last' = CanActivateResult(clientIp).call
    /\ UNCHANGED <<now, users, userStats, refreshTokens, securityLogs, issued, inflight,
                   calls, systemPrompts, uniqueActiveIndex, promptCache, chatSessions>>

\* Date.now() of the guard has advanced by one tick
GuardClock ==
    /\ now < MaxTime
    /\ now' = now + 1
    /\ UNCHANGED <<users, userStats, refreshTokens, securityLogs, issued, last, inflight,
                   elsewhere>>

\* ------------------------------------------------- the other state at rest
\* The state outside of the ledger when the server starts: no call under
\* way, the configuration p1 active, an empty cache, no chat session, no
\* counter.
InitialPrompts ==
    [id \in PromptIds |->
        [version |-> id, compiledPrompt |-> CompiledPrompt[id],
         isActive |-> id = "p1", activatedAt |-> NoDate]]

ElsewhereAtRest ==
    /\ calls = [w \in Workers |-> Resting]
    /\ systemPrompts = InitialPrompts
    /\ uniqueActiveIndex = FALSE
    /\ promptCache = EmptyCache
    /\ chatSessions = <<>>
    /\ requestCounts = [ip \in IpAddresses |-> NoClient]

\* ----------------------------------------------------------- specification
\* The strings a client can present to refresh: the refresh and the access
\* token of every login, and a token that the server did not sign.
PresentedTokens ==
    UNION { { issued[i].refreshToken, issued[i].accessToken } : i \in 1..Len(issued) }
        \cup { [issued[i].refreshToken EXCEPT !.sig = "forged"] : i \in 1..Len(issued) }

\* The account whose sessions the calls of Next are about
LoginNames == {"alice"}

Callers == {"u1"}

\* Two registered, active accounts; nobody has logged in yet.
Init ==
    /\ now = 0
    /\ users = [u \in Users |->
                  [name |-> NameOf[u], password |-> BcryptHash(PlainString("pw1"), 0),
                   role |-> "user", isActive |-> TRUE]]
    /\ userStats = Users
    /\ refreshTokens = <<>>
    /\ securityLogs = <<>>
    /\ issued = <<>>
    /\ last = Call("init", "none", Undefined, Undefined)
    /\ inflight = [p \in Procs |-> Idle]
    /\ ElsewhereAtRest

Next ==
    \/ \E name \in LoginNames, password \in Passwords, fp \in LoginFingerprints :
          Login(name, password, fp[1], fp[2])
    \/ \E t \in PresentedTokens, fp \in RequestFingerprints : RefreshToken(t, fp[1], fp[2])
    \/ \E u \in Callers : Logout(u)
    \/ \E u \in Callers, cur \in Passwords, new \in Passwords : ChangePassword(u, cur, new)
    \/ \E u \in Callers : RevokeAllSessions(u)
    \/ \E id \in 1..MaxLogins : TtlExpire(id)
    \/ Tick

Spec == Init /\ [][Next]_vars

\* ------------------------------------------- specification of the accounts
\* The life of the accounts: registration, profile update, deletion and
\* administration, with logins and refreshes in between.  The clock stands
\* still: every token is signed at the same time.
RegisterNames == {"alice", "bob"}

AccountLoginNames == {"alice", "bob", "carol"}

AccountFingerprints == { <<"ua1", "ip1">>, <<"ua2", "ip2">> }

UpdateUserDtos ==
    { [name |-> "bob", password |-> Undefined],
      [name |-> "carol", password |-> Undefined],
      [name |-> Undefined, password |-> "pw2"] }

Confirmations == { ConfirmationPhrase, "borrar" }

\* One registered, active account; nobody has logged in yet.
InitAccounts ==
    /\ now = 0
    /\ users = [u \in Users |->
                  IF u = "u1"
                  THEN [name |-> "alice", password |-> BcryptHash(PlainString("pw1"), 0),
                        role |-> "user", isActive |-> TRUE]
                  ELSE NoUser]
    /\ userStats = {"u1"}
    /\ refreshTokens = <<>>
    /\ securityLogs = <<>>
    /\ issued = <<>>
    /\ last = Call("init", "none", Undefined, Undefined)
    /\ inflight = [p \in Procs |-> Idle]
    /\ ElsewhereAtRest

NextAccounts ==
    \/ \E name \in RegisterNames : Register(name, "pw1")
    \/ \E name \in AccountLoginNames, password \in Passwords :
          Login(name, password, "ua1", "ip1")
    \/ \E t \in PresentedTokens, fp \in AccountFingerprints : RefreshToken(t, fp[1], fp[2])
    \/ \E u \in Callers, dto \in UpdateUserDtos : UpdateUserProfile(u, dto)
    \/ \E u \in Users, c \in Confirmations : DeleteUserAccount(u, c)
    \/ \E u \in Callers, role \in Roles : SetRole(u, role)
    \/ \E u \in Callers, b \in BOOLEAN : SetIsActive(u, b)

SpecAccounts == InitAccounts /\ [][NextAccounts]_vars

\* ------------------------------------------ specification of the passwords
\* Logins, refreshes and password changes of one account, with passwords
\* longer than the 72 bytes that bcrypt reads among the inputs.
AllPasswords == Passwords \cup LongPasswords

NextPasswords ==
    \/ \E password \in AllPasswords, fp \in AccountFingerprints :
          Login("alice", password, fp[1], fp[2])
    \/ \E t \in PresentedTokens, fp \in AccountFingerprints : RefreshToken(t, fp[1], fp[2])
    \/ \E u \in Callers, cur \in AllPasswords, new \in AllPasswords :
          ChangePassword(u, cur, new)

\* Two registered, active accounts, the one that acts with any of the
\* passwords; nobody has logged in yet.
InitPasswords ==
    /\ now = 0
    /\ \E password \in AllPasswords :
          users = [u \in Users |->
                     [name |-> NameOf[u],
                      password |-> BcryptHash(PlainString(IF u \in Callers THEN password
                                                         ELSE "pw1"), 0),
                      role |-> "user", isActive |-> TRUE]]
    /\ userStats = Users
    /\ refreshTokens = <<>>
    /\ securityLogs = <<>>
    /\ issued = <<>>
    /\ last = Call("init", "none", Undefined, Undefined)
    /\ inflight = [p \in Procs |-> Idle]
    /\ ElsewhereAtRest

SpecPasswords == InitPasswords /\ [][NextPasswords]_vars

\* ------------------------------------------- specification of the sessions
\* The sessions of two accounts: logins, refreshes, logout, change of
\* password and revocation, while the clock runs.
NextSessions ==
    \/ \E name \in Names, password \in Passwords, fp \in AccountFingerprints :
          Login(name, password, fp[1], fp[2])
    \/ \E t \in PresentedTokens, fp \in AccountFingerprints : RefreshToken(t, fp[1], fp[2])
    \/ \E u \in Users : Logout(u)
    \/ \E u \in Users, cur \in Passwords, new \in Passwords : ChangePassword(u, cur, new)
    \/ \E u \in Users : RevokeAllSessions(u)
    \/ Tick

SpecSessions == Init /\ [][NextSessions]_vars

\* ---------------------------------------------- specification of the races
\* One revoking call (changePassword, revokeAllSessions or logout) and one
\* refresh of the same account, each taken await by await and interleaved
\* in every way; the account logs in before the two calls and after them.
NoCallUnderWay == \A p \in Procs : inflight[p].pc \in {"idle", "done"}

NextSteps ==
    \/ \E name \in LoginNames, password \in Passwords, fp \in AccountFingerprints :
          NoCallUnderWay /\ Login(name, password, fp[1], fp[2])
    \/ \E u \in Callers, cur \in Passwords, new \in Passwords :
          ChangePasswordBegin(u, cur, new)
    \/ ChangePasswordSave
    \/ ChangePasswordSaveFails
    \/ ChangePasswordDeleteMany
    \/ ChangePasswordCreateLog
    \/ \E u \in Callers : RevokeAllSessionsBegin(u)
    \/ RevokeAllSessionsDeleteMany
    \/ RevokeAllSessionsCreateLog
    \/ \E u \in Callers : LogoutDeleteMany(u)
    \/ \E t \in PresentedTokens, fp \in AccountFingerprints :
          RefreshTokenBegin(t, fp[1], fp[2])
    \/ RefreshTokenFind
    \/ RefreshTokenCompare
    \/ RefreshTokenCreateLog
    \/ NoCallUnderWay /\ Tick

SpecSteps == Init /\ [][NextSteps]_vars

\* ---------------------------------------------- specification of the names
\* The ledger at rest, as Init has it.
LedgerAtRest ==
    /\ now = 0
    /\ refreshTokens = <<>>
    /\ securityLogs = <<>>
    /\ issued = <<>>
    /\ last = Call("init", "none", Undefined, Undefined)
    /\ inflight = [p \in Procs |-> Idle]

\* Two requests that register accounts and rename them, each taken await by
\* await and interleaved in every way, on a database that has no account.
NameDtos ==
    { [name |-> "alice", password |-> Undefined],
      [name |-> "bob", password |-> Undefined],
      [name |-> Undefined, password |-> "pw2"] }

InitNames ==
    /\ LedgerAtRest
    /\ users = [u \in Users |-> NoUser]
    /\ userStats = {}
    /\ ElsewhereAtRest

NextNames ==
    \/ \E w \in Workers, name \in RegisterNames : RegisterFindOne(w, name, "pw1")
    \/ \E w \in Workers : RegisterSave(w)
    \/ \E w \in Workers : RegisterSaveStats(w)
    \/ \E w \in Workers, u \in Users, dto \in NameDtos : UpdateUserProfileFindById(w, u, dto)
    \/ \E w \in Workers : UpdateUserProfileFindOne(w)
    \/ \E w \in Workers : UpdateUserProfileSave(w)

SpecNames == InitNames /\ [][NextNames]_vars

\* ----------------------------------------- specification of the activations
\* Two requests that activate configurations, interleaved in every way.  The
\* database may or may not have the unique partial index on isActive.
InitPrompts ==
    /\ LedgerAtRest
    /\ users = [u \in Users |-> NoUser]
    /\ userStats = {}
    /\ calls = [w \in Workers |-> Resting]
    /\ systemPrompts = InitialPrompts
    /\ uniqueActiveIndex \in BOOLEAN
    /\ promptCache = EmptyCache
    /\ chatSessions = <<>>
    /\ requestCounts = [ip \in IpAddresses |-> NoClient]

NextActivation ==
    \/ \E w \in Workers, id \in PromptIds \cup {MissingPromptId} :
          ActivateSystemPromptFindById(w, id)
    \/ \E w \in Workers : ActivateSystemPromptUpdateMany(w)
    \/ \E w \in Workers : ActivateSystemPromptSave(w)
    \/ \E w \in Workers : ActivateSystemPromptInvalidateCache(w)

SpecActivation == InitPrompts /\ [][NextActivation]_vars

\* ------------------------------------------ specification of the prompt cache
\* One request after the other that activates a configuration (w1) and one
\* after the other that gets the active prompt (w2), interleaved in every
\* way, while the clock runs.
Admin == "w1"
Reader == "w2"

NextPromptCache ==
    \/ \E id \in PromptIds : ActivateSystemPromptFindById(Admin, id)
    \/ ActivateSystemPromptUpdateMany(Admin)
    \/ ActivateSystemPromptSave(Admin)
    \/ ActivateSystemPromptInvalidateCache(Admin)
    \/ GetActivePrompt(Reader)
    \/ RefreshCacheFindOne(Reader)
    \/ RefreshCacheWrite(Reader)
    \/ GetActivePromptReturn(Reader)
    \/ Tick

SpecPromptCache == InitPrompts /\ [][NextPromptCache]_vars

\* ----------------------------------------- specification of the chat sessions
\* Two requests that start and end chat sessions, interleaved in every way.
InitChat ==
    /\ LedgerAtRest
    /\ users = [u \in Users |->
                  [name |-> NameOf[u], password |-> BcryptHash(PlainString("pw1"), 0),
                   role |-> "user", isActive |-> TRUE]]
    /\ userStats = Users
    /\ ElsewhereAtRest

NextChat ==
    \/ \E w \in Workers, u \in Users, t \in TemplateIds \cup {MissingTemplateId} :
          StartSessionFindTemplate(w, u, t)
    \/ \E w \in Workers : StartSessionFindOne(w)
    \/ \E w \in Workers : StartSessionSave(w)
    \/ \E w \in Workers, sessionId \in 1..MaxSessions : EndSession(w, sessionId)

SpecChat == InitChat /\ [][NextChat]_vars

\* ------------------------------------------------ specification of the guard
\* The requests of two clients that pass RateLimitGuard while the clock runs.
NextGuard ==
    \/ \E clientIp \in IpAddresses : CanActivate(clientIp)
    \/ GuardClock

SpecGuard == InitChat /\ [][NextGuard]_vars

\* ------------------------------------------------------------------ claims
Range(seq) == {seq[k] : k \in 1..Len(seq)}

\* the record written by the i-th successful login is still in the ledger
Stored(i) == \E r \in Range(refreshTokens) : r.id = issued[i].recordId

Logins == 1..Len(issued)

\* a user-agent and an IP are both present
Complete(userAgent, ipAddress) == userAgent # Undefined /\ ipAddress # Undefined

\* the record that the scan of refreshToken selects for a presented string
Selected(t) == FirstMatch(t, Find(refreshTokens, t.sub))

\* the call passes the signature and account checks and the scan finds a record
ReachesRecord(t) == JwtVerify(t) /\ ValidateUser(t.sub) /\ Selected(t) # NoRecord

SuspiciousMessage ==
    "Suspicious activity detected. All sessions have been revoked. Please login again."

\* every presented string of the account is refused, whatever the fingerprint
AllRefused(userId) ==
    \A t \in PresentedTokens, fp \in RequestFingerprints :
        t.sub = userId => RefreshTokenResult(t, fp[1], fp[2]).call.status = "Unauthorized"

\* C1: in every state that a successful login leaves, refresh with the
\* returned refresh token and the user-agent and IP of that login succeeds
\* and returns an access token.
C1_RefreshAfterLogin ==
    (last.op = "login" /\ last.status = "ok") =>
        LET r == RefreshTokenResult(last.refreshToken, last.userAgent, last.ipAddress)
        IN  r.call.status = "ok" /\ r.call.accessToken # NoToken

\* C2: anomaly cascade.  When the record that refresh selects for the
\* presented token is unexpired and has a complete fingerprint, and the
\* request has a complete fingerprint that differs in user-agent or IP, the
\* call fails with Unauthorized, no record of the account is left, and the
\* log grows by exactly one suspicious_activity event that carries both
\* fingerprints; in the state the call leaves, every token of the account
\* is refused with every fingerprint.
C2_AnomalyCascade ==
    /\ \A t \in PresentedTokens, fp \in RequestFingerprints :
          LET m == Selected(t)
              r == RefreshTokenResult(t, fp[1], fp[2])
          IN  ( /\ ReachesRecord(t)
                /\ m.expiresAt >= now
                /\ Complete(m.userAgent, m.ipAddress)
                /\ Complete(fp[1], fp[2])
                /\ (m.userAgent # fp[1] \/ m.ipAddress # fp[2]) )
              => /\ r.call.status = "Unauthorized"
                 /\ \A x \in Range(r.tokens) : x.userId # t.sub
                 /\ Len(r.logs) = Len(securityLogs) + 1
                 /\ SubSeq(r.logs, 1, Len(securityLogs)) = securityLogs
                 /\ r.logs[Len(r.logs)].action = "suspicious_activity"
                 /\ r.logs[Len(r.logs)].userId = t.sub
                 /\ r.logs[Len(r.logs)].metadata =
                        [originalIP |-> m.ipAddress, originalUserAgent |-> m.userAgent,
                         suspiciousIP |-> fp[2], suspiciousUserAgent |-> fp[1]]
    /\ (last.op = "refresh" /\ last.message = SuspiciousMessage) => AllRefused(last.user)

\* C2 witness: a refresh from another device has just been refused, the
\* account had two sessions with different, still valid tokens, none of its
\* records is left and the log holds the one event.
C2_Witness ==
    /\ last.op = "refresh" /\ last.status = "Unauthorized"
    /\ last.message = SuspiciousMessage
    /\ Complete(last.matched.userAgent, last.matched.ipAddress)
    /\ Complete(last.userAgent, last.ipAddress)
    /\ last.matched.userAgent # last.userAgent
    /\ Len(issued) = 2
    /\ issued[1].refreshToken # issued[2].refreshToken
    /\ JwtVerify(issued[1].refreshToken) /\ JwtVerify(issued[2].refreshToken)
    /\ Find(refreshTokens, last.user) = <<>>
    /\ Len(securityLogs) = 1
    /\ securityLogs[1].action = "suspicious_activity"

\* the refresh token of login i is the string of no login whose record is stored
Revoked(i) ==
    \A j \in Logins :
        issued[j].refreshToken = issued[i].refreshToken => ~Stored(j)

\* C3: a refresh token whose ledger record has been deleted is refused,
\* whatever has happened since (new logins of the account included).
C3_DeletedRecordRefused ==
    \A i \in Logins, fp \in RequestFingerprints :
        Revoked(i) =>
            RefreshTokenResult(issued[i].refreshToken, fp[1], fp[2]).call.status
                = "Unauthorized"

\* C4: the scan selects, for the refresh token of every login whose record
\* is stored, exactly that record; and a stored hash verifies no string but
\* the refresh token returned when the record was written.
C4_ScanFindsIssuedRecord ==
    /\ \A i \in Logins :
          Stored(i) => Selected(issued[i].refreshToken).id = issued[i].recordId
    /\ \A i \in Logins, t \in PresentedTokens :
          \A r \in Range(refreshTokens) :
              (r.id = issued[i].recordId /\ BcryptCompare(JwtString(t), r.token))
                  => t = issued[i].refreshToken

\* C5: after two logins of one account from two different fingerprints,
\* while both records are stored and unexpired, each refresh token is
\* accepted with the fingerprint of its own login and the call leaves the
\* ledger as it is.
C5_MultiDevice ==
    \A i \in Logins, j \in Logins :
        ( /\ i # j
          /\ issued[i].user = issued[j].user
          /\ <<issued[i].userAgent, issued[i].ipAddress>>
                # <<issued[j].userAgent, issued[j].ipAddress>>
          /\ Stored(i) /\ Stored(j)
          /\ JwtVerify(issued[i].refreshToken) /\ JwtVerify(issued[j].refreshToken) )
        => LET r == RefreshTokenResult(issued[i].refreshToken,
                                       issued[i].userAgent, issued[i].ipAddress)
           IN  r.call.status = "ok" /\ r.tokens = refreshTokens

\* C6: a refresh that succeeds leaves the ledger and the security log as
\* they were, with the selected record still stored, so that the same call
\* succeeds again in the state it leaves.
C6_SuccessChangesNothing ==
    /\ \A t \in PresentedTokens, fp \in RequestFingerprints :
          LET r == RefreshTokenResult(t, fp[1], fp[2])
          IN  r.call.status = "ok"
              => /\ r.tokens = refreshTokens
                 /\ r.logs = securityLogs
                 /\ r.call.matched \in Range(r.tokens)
    /\ (last.op = "refresh" /\ last.status = "ok") =>
          /\ last.matched \in Range(refreshTokens)
          /\ \E t \in PresentedTokens :
                RefreshTokenResult(t, last.userAgent, last.ipAddress).call = last

\* C6 witness: a refresh has just succeeded and its record is still stored
C6_Witness ==
    /\ last.op = "refresh" /\ last.status = "ok"
    /\ last.accessToken # NoToken
    /\ last.matched \in Range(refreshTokens)

\* C7: when the record that refresh selects has an expiry before the
\* current time, the call fails with Unauthorized, exactly that record
\* leaves the ledger, every other record stays, and no event is logged.
C7_ExpiredRecordDeleted ==
    \A t \in PresentedTokens, fp \in RequestFingerprints :
        LET m == Selected(t)
            r == RefreshTokenResult(t, fp[1], fp[2])
        IN  (ReachesRecord(t) /\ m.expiresAt < now)
            => /\ r.call.status = "Unauthorized"
               /\ Range(r.tokens) = Range(refreshTokens) \ {m}
               /\ Len(r.tokens) = Len(refreshTokens) - 1
               /\ \A x \in Range(r.tokens) : x.id # m.id
               /\ r.logs = securityLogs

\* C7 witness: a refresh has just been refused for an expired record, which
\* is gone, while another record of the account is still stored.
C7_Witness ==
    /\ last.op = "refresh" /\ last.status = "Unauthorized"
    /\ last.message = "Refresh token expired"
    /\ last.matched.expiresAt < now
    /\ last.matched \notin Range(refreshTokens)
    /\ Find(refreshTokens, last.user) # <<>>
    /\ securityLogs = <<>>

\* C8: when the selected record is unexpired and the user-agent or the IP
\* of the record or of the request is missing, refresh succeeds whatever
\* the other values are, deletes no record and logs no event.
C8_PartialFingerprintAccepted ==
    \A t \in PresentedTokens, fp \in RequestFingerprints :
        LET m == Selected(t)
            r == RefreshTokenResult(t, fp[1], fp[2])
        IN  ( /\ ReachesRecord(t)
              /\ m.expiresAt >= now
              /\ (~Complete(m.userAgent, m.ipAddress) \/ ~Complete(fp[1], fp[2])) )
            => /\ r.call.status = "ok"
               /\ r.tokens = refreshTokens
               /\ r.logs = securityLogs

\* C8 witness: a refresh has just succeeded although the IP of the request
\* differs from the IP of the record: the request had no user-agent.
C8_Witness ==
    /\ last.op = "refresh" /\ last.status = "ok"
    /\ Complete(last.matched.userAgent, last.matched.ipAddress)
    /\ last.userAgent = Undefined
    /\ last.ipAddress # Undefined
    /\ last.ipAddress # last.matched.ipAddress

CauseMessage(t, userAgent, ipAddress) ==
    LET stored == Find(refreshTokens, t.sub)
        m == Selected(t)
    IN  IF ~JwtVerify(t) THEN "Invalid refresh token"
        ELSE IF ~ValidateUser(t.sub) THEN "User not found or inactive"
        ELSE IF stored = <<>> THEN "No refresh token found"
        ELSE IF \A x \in Range(stored) : ~BcryptCompare(JwtString(t), x.token)
             THEN "Invalid refresh token"
        ELSE IF m.expiresAt < now THEN "Refresh token expired"
        ELSE IF /\ Complete(m.userAgent, m.ipAddress) /\ Complete(userAgent, ipAddress)
                /\ <<m.userAgent, m.ipAddress>> # <<userAgent, ipAddress>>
             THEN SuspiciousMessage
        ELSE ""

C10_SignatureNotSufficient ==
    \A t \in PresentedTokens, fp \in RequestFingerprints :
        ( /\ t.sig = Secret
          /\ \A j \in Logins : Stored(j) => t # issued[j].refreshToken )
        => RefreshTokenResult(t, fp[1], fp[2]).call.status = "Unauthorized"

\* C11: when the account named by the subject of the presented token is
\* missing or inactive, refresh fails with Unauthorized and leaves the ledger
\* and the security log as they are, whatever the ledger holds.
C11_AccountGoneRefused ==
    \A t \in PresentedTokens, fp \in AccountFingerprints :
        LET r == RefreshTokenResult(t, fp[1], fp[2])
        IN  (users[t.sub] = NoUser \/ ~users[t.sub].isActive)
            => /\ r.call.status = "Unauthorized"
               /\ r.tokens = refreshTokens
               /\ r.logs = securityLogs

\* C11 witness: a refresh has just been refused for a disabled account whose
\* token is signed and unexpired and whose ledger record is stored,
\* unexpired and has the fingerprint of the request.
C11_Witness ==
    /\ last.op = "refresh" /\ last.status = "Unauthorized"
    /\ last.message = "User not found or inactive"
    /\ users[last.user] # NoUser /\ ~users[last.user].isActive
    /\ \E i \in Logins :
          /\ issued[i].user = last.user
          /\ JwtVerify(issued[i].refreshToken)
          /\ Stored(i)
          /\ Selected(issued[i].refreshToken).expiresAt >= now
          /\ Selected(issued[i].refreshToken).userAgent = last.userAgent
          /\ Selected(issued[i].refreshToken).ipAddress = last.ipAddress

\* the credentials are those of no account that may log in
BadCredentials(name, password) ==
    \/ \A u \in Users : users[u] = NoUser \/ users[u].name # name
    \/ \E u \in Users :
          /\ users[u] # NoUser /\ users[u].name = name
          /\ \/ users[u].password.digest # BcryptInput(PlainString(password))
             \/ ~users[u].isActive

\* C12: a login with a name that no account has, with a password that does
\* not verify, or for an inactive account ends with Unauthorized, returns no
\* token and leaves the ledger as it is.
C12_LoginRefused ==
    [][ \A name \in AccountLoginNames, password \in Passwords :
          (BadCredentials(name, password) /\ Login(name, password, "ua1", "ip1"))
          => /\ last'.status = "Unauthorized"
             /\ last'.accessToken = NoToken
             /\ last'.refreshToken = NoToken
             /\ refreshTokens' = refreshTokens
             /\ issued' = issued ]_vars

\* C12 witness: the login of a disabled account that holds a session has
\* just been refused.
C12_Witness ==
    /\ last.op = "login" /\ last.status = "Unauthorized"
    /\ last.message = "User account is disabled"
    /\ ~users[last.user].isActive
    /\ Find(refreshTokens, last.user) # <<>>

\* C19: the access token that a successful refresh returns carries the id,
\* the name and the role that the account has when the refresh is made.
C19_ClaimsFromAccount ==
    \A t \in PresentedTokens, fp \in AccountFingerprints :
        LET r == RefreshTokenResult(t, fp[1], fp[2])
        IN  r.call.status = "ok"
            => /\ r.call.accessToken.sub = t.sub
               /\ r.call.accessToken.userId = t.sub
               /\ r.call.accessToken.name = users[t.sub].name
               /\ r.call.accessToken.role = users[t.sub].role

\* C19 witness: a refresh has just returned an access token with a name and
\* a role that no refresh token of the account carries.
C19_Witness ==
    /\ last.op = "refresh" /\ last.status = "ok"
    /\ last.accessToken.role = "admin"
    /\ last.accessToken.name # "alice"
    /\ \A i \in Logins :
          issued[i].user = last.user
          => /\ issued[i].refreshToken.role = "user"
             /\ issued[i].refreshToken.name = "alice"

\* the accounts that exist
Registered == {u \in Users : users[u] # NoUser}

C20_WitnessConflict ==
    /\ last.op = "register" /\ last.status = "Conflict"
    /\ users[last.user] # NoUser

\* C13 as claimed: after every successful changePassword the old password no
\* longer logs in, the new one does, no record of the account is left, every
\* earlier refresh token fails, and one password_changed event was appended.
C13_PasswordChanged ==
    [][ \A u \in Callers, cur \in AllPasswords, new \in AllPasswords :
          ChangePasswordSucceeds(u, cur, new)
          => /\ (LoginError(users[u].name, cur) # "")'
             /\ (LoginError(users[u].name, new) = "")'
             /\ Find(refreshTokens', u) = <<>>
             /\ AllRefused(u)'
             /\ Len(securityLogs') = Len(securityLogs) + 1
             /\ SubSeq(securityLogs', 1, Len(securityLogs)) = securityLogs
             /\ securityLogs'[Len(securityLogs')].action = "password_changed"
             /\ securityLogs'[Len(securityLogs')].userId = u ]_vars

\* C13 as amended: the same, but the old password is refused afterwards
\* only if it differs from the new one within the 72 bytes that bcrypt
\* reads; otherwise it still logs in.
C13_PasswordChangedIfDifferent ==
    [][ \A u \in Callers, cur \in AllPasswords, new \in AllPasswords :
          ChangePasswordSucceeds(u, cur, new)
          => /\ (LoginError(users[u].name, cur) # "")'
                    <=> (BcryptInput(PlainString(cur)) # BcryptInput(PlainString(new)))
             /\ (LoginError(users[u].name, new) = "")'
             /\ Find(refreshTokens', u) = <<>>
             /\ AllRefused(u)'
             /\ Len(securityLogs') = Len(securityLogs) + 1
             /\ SubSeq(securityLogs', 1, Len(securityLogs)) = securityLogs
             /\ securityLogs'[Len(securityLogs')].action = "password_changed"
             /\ securityLogs'[Len(securityLogs')].userId = u ]_vars

\* C13 witness: the password of an account that held two sessions has just
\* been changed to another one.
C13_Witness ==
    /\ last.op = "changePassword" /\ last.status = "ok"
    /\ Len(issued) = 2
    /\ Find(refreshTokens, last.user) = <<>>
    /\ LoginError(users[last.user].name, "pw1") # ""
    /\ LoginError(users[last.user].name, "pw2") = ""
    /\ Len(securityLogs) = 1
    /\ securityLogs[1].action = "password_changed"

\* C15: changePassword with a current password that does not verify ends
\* with Unauthorized and leaves the password hash, the ledger and the
\* security log as they are.
C15_WrongCurrentPassword ==
    [][ \A u \in Callers, cur \in AllPasswords, new \in AllPasswords :
          ( /\ users[u] # NoUser
            /\ users[u].password.digest # BcryptInput(PlainString(cur))
            /\ ChangePassword(u, cur, new) )
          => /\ last'.status = "Unauthorized"
             /\ users' = users
             /\ refreshTokens' = refreshTokens
             /\ securityLogs' = securityLogs ]_vars

\* C15 witness: a password change of an account that holds a session has
\* just been refused for its current password.
C15_Witness ==
    /\ last.op = "changePassword" /\ last.status = "Unauthorized"
    /\ last.message = "Current password is incorrect"
    /\ Find(refreshTokens, last.user) # <<>>

\* the number of ledger records that an account owns
RecordsOf(userId) == Len(Find(refreshTokens, userId))

\* C16: logout and revokeAllSessions succeed whether or not the account has
\* records, and leave none; the same call made again in the state that one
\* of them leaves succeeds, deletes 0 records and leaves the ledger as it is.
C16_RevocationIdempotent ==
    /\ \A u \in Users :
          /\ ENABLED Logout(u)
          /\ RevokeAllSessionsResult(u).call.status = "ok"
          /\ Find(RevokeAllSessionsResult(u).tokens, u) = <<>>
          /\ Find(DeleteMany(refreshTokens, u), u) = <<>>
    /\ (last.op \in {"logout", "revokeAllSessions"} /\ last.status = "ok")
          => /\ RecordsOf(last.user) = 0
             /\ RevokeAllSessionsResult(last.user).call.status = "ok"
             /\ RevokeAllSessionsResult(last.user).call.deletedCount = 0
             /\ RevokeAllSessionsResult(last.user).tokens = refreshTokens
             /\ DeleteMany(refreshTokens, last.user) = refreshTokens

\* C16 witness: revokeAllSessions has just deleted the two records of an
\* account, and the same call made now deletes none.
C16_Witness ==
    /\ last.op = "revokeAllSessions" /\ last.status = "ok"
    /\ last.deletedCount = 2
    /\ RevokeAllSessionsResult(last.user).call.deletedCount = 0

\* C17: every revokeAllSessions that succeeds appends exactly one
\* all_tokens_revoked event of the account, and the count in the event and
\* in the answer is the number of records of the account that the call
\* deleted; the records of other accounts stay.
C17_RevokedCount ==
    [][ \A u \in Users :
          RevokeAllSessions(u)
          => /\ last'.status = "ok"
             /\ Len(securityLogs') = Len(securityLogs) + 1
             /\ SubSeq(securityLogs', 1, Len(securityLogs)) = securityLogs
             /\ securityLogs'[Len(securityLogs')].action = "all_tokens_revoked"
             /\ securityLogs'[Len(securityLogs')].userId = u
             /\ "tokensRevoked" \in DOMAIN securityLogs'[Len(securityLogs')].metadata
             /\ securityLogs'[Len(securityLogs')].metadata.tokensRevoked = RecordsOf(u)
             /\ last'.deletedCount = RecordsOf(u)
             /\ Len(refreshTokens) - Len(refreshTokens') = RecordsOf(u)
             /\ refreshTokens' = SelectSeq(refreshTokens, LAMBDA r : r.userId # u) ]_vars

\* the stored password hash of the account is the hash of the password
NewHashStored(userId, password) ==
    users[userId].password.digest = BcryptInput(PlainString(password))

\* the log holds a password_changed event of the account
PasswordChangeLogged(userId) ==
    \E e \in Range(securityLogs) : e.action = "password_changed" /\ e.userId = userId

\* C14: changePassword writes the new password hash, then deletes the
\* records of the account, then appends the event.  Its deleteMany is made
\* only with the new hash stored and before the event; its event only after
\* the deleteMany; and a call whose password write has failed makes no
\* further step and has changed neither the ledger nor the log.
C14_PasswordThenRevoke ==
    /\ [] ( LET call == inflight["revoker"]
            IN  call.op = "changePassword"
                => /\ call.deleted => NewHashStored(call.user, call.newPassword)
                   /\ call.logged => call.deleted
                   /\ PasswordChangeLogged(call.user) => call.deleted
                   /\ (call.pc = "done" /\ call.status = "Error")
                         => /\ ~call.deleted /\ ~call.logged
                            /\ ~PasswordChangeLogged(call.user)
                            /\ ~ENABLED ChangePasswordDeleteMany
                            /\ ~ENABLED ChangePasswordCreateLog )
    /\ [][ /\ ChangePasswordDeleteMany
              => /\ NewHashStored(inflight["revoker"].user, inflight["revoker"].newPassword)
                 /\ ~PasswordChangeLogged(inflight["revoker"].user)
           /\ ChangePasswordSaveFails
              => /\ refreshTokens' = refreshTokens
                 /\ securityLogs' = securityLogs
                 /\ users' = users ]_vars

\* C14 witness: changePassword stands between its password write and its
\* deleteMany: the new password logs in, the old one does not, and the
\* sessions of the account are still in the ledger.
C14_Witness ==
    /\ inflight["revoker"].op = "changePassword"
    /\ inflight["revoker"].pc = "deleteMany"
    /\ LoginError("alice", "pw1") # ""
    /\ LoginError("alice", "pw2") = ""
    /\ Len(Find(refreshTokens, inflight["revoker"].user)) = 2

\* C14 witness of the failure: the password write of changePassword has
\* failed and the sessions of the account are in the ledger.
C14_WitnessSaveFailed ==
    /\ inflight["revoker"].op = "changePassword"
    /\ inflight["revoker"].pc = "done" /\ inflight["revoker"].status = "Error"
    /\ Find(refreshTokens, inflight["revoker"].user) # <<>>

\* the string is a refresh token that the account got before the deleteMany
\* of the revocation, and not again after it
IssuedBefore(t, revocation) ==
    /\ \E i \in 1..revocation.issuedBefore :
          issued[i].user = revocation.user /\ issued[i].refreshToken = t
    /\ \A j \in Logins : j > revocation.issuedBefore => issued[j].refreshToken # t

\* C18, the race: a refresh, with a token issued before the revocation, that
\* reads the ledger after the deleteMany of the revocation fails, and when
\* both calls have ended none of the records that the account had is left.
RaceAlone ==
    LET revocation == inflight["revoker"]
        refresh == inflight["refresher"]
    IN  /\ ( /\ refresh.pc = "done" /\ refresh.readAfterDelete
              /\ IssuedBefore(refresh.token, revocation) )
              => refresh.status = "Unauthorized"
        /\ (revocation.pc = "done" /\ revocation.deleted /\ refresh.pc \in {"idle", "done"})
              => \A r \in Range(refreshTokens) :
                    r.userId = revocation.user => r.id > revocation.issuedBefore

\* after a revocation that has ended, every refresh token that the account
\* got before it is refused
RevokedTokensRefused ==
    LET revocation == inflight["revoker"]
    IN  (revocation.pc = "done" /\ revocation.deleted)
        => \A i \in 1..revocation.issuedBefore, fp \in AccountFingerprints :
              IssuedBefore(issued[i].refreshToken, revocation)
              => RefreshTokenResult(issued[i].refreshToken, fp[1], fp[2]).call.status
                    = "Unauthorized"

\* C18: in every interleaving of a refresh with a logout, changePassword or
\* revokeAllSessions of the same account, a refresh that reads the ledger
\* after the deleteMany fails with Unauthorized; when both have ended the
\* ledger holds none of the records that the account had before; and after
\* the revocation has ended no refresh with a token issued before it
\* succeeds.
C18_RefreshRevocationRace == RaceAlone /\ RevokedTokensRefused

\* C18 while the account has not logged in again after the revocation
C18_UntilNextLogin ==
    (\A i \in Logins :
        issued[i].user = inflight["revoker"].user => i <= inflight["revoker"].issuedBefore)
    => (RaceAlone /\ RevokedTokensRefused)

\* C21: the security event log is append-only: whatever step a login, refresh,
\* logout, changePassword or revokeAllSessions call takes, every event that
\* the log held is still there, unchanged and at its place; a step only adds
\* events at the end.
C21_AppendOnly ==
    [][ /\ Len(securityLogs') >= Len(securityLogs)
        /\ SubSeq(securityLogs', 1, Len(securityLogs)) = securityLogs ]_vars

\* C21 witness: the log holds the suspicious_activity event of a refresh and,
\* after it, the event of a changePassword or revokeAllSessions that ended.
C21_Witness ==
    /\ Len(securityLogs) = 2
    /\ securityLogs[1].action = "suspicious_activity"
    /\ securityLogs[2].action \in {"password_changed", "all_tokens_revoked"}
    /\ inflight["revoker"].pc = "done" /\ inflight["revoker"].logged

\* C22: every login that succeeds adds exactly one record to the ledger: the
\* record is owned by the account, holds a hash of the refresh token that the
\* login returns and not the token itself, holds the user-agent and the IP of
\* the login, and expires 7 days after the login, when the token does; every
\* record that the ledger held stays as it was.
C22_LoginAddsOneRecord ==
    [][ \A name \in Names, password \in Passwords, fp \in AccountFingerprints :
          LoginSucceeds(name, password, fp[1], fp[2])
          => /\ Len(refreshTokens') = Len(refreshTokens) + 1
             /\ SubSeq(refreshTokens', 1, Len(refreshTokens)) = refreshTokens
             /\ refreshTokens'[Len(refreshTokens')].userId = FindOneByName(name)
             /\ last'.user = FindOneByName(name)
             /\ BcryptCompare(JwtString(last'.refreshToken),
                              refreshTokens'[Len(refreshTokens')].token)
             /\ refreshTokens'[Len(refreshTokens')].token # JwtString(last'.refreshToken)
             /\ refreshTokens'[Len(refreshTokens')].token.digest
                    # JwtString(last'.refreshToken)
             /\ refreshTokens'[Len(refreshTokens')].userAgent = fp[1]
             /\ refreshTokens'[Len(refreshTokens')].ipAddress = fp[2]
             /\ refreshTokens'[Len(refreshTokens')].expiresAt = now + RefreshTokenTtl
             /\ last'.refreshToken.exp = now + RefreshTokenTtl ]_vars

\* C22 witness: after a tick an account has just logged in while the ledger
\* held a record of the other account, which is still the first record.
C22_Witness ==
    /\ last.op = "login" /\ last.status = "ok"
    /\ now > 0
    /\ Len(refreshTokens) = 2
    /\ refreshTokens[1].userId # last.user
    /\ refreshTokens[2].userId = last.user
    /\ refreshTokens[2].userAgent = last.userAgent
    /\ refreshTokens[2].expiresAt = now + RefreshTokenTtl

\* C26: whenever the stored password hash of an account is replaced, by
\* changePassword or by updateUserProfile with a password, the ledger holds
\* no record of the account afterwards, so that no refresh token issued under
\* the old password obtains an access token.
C26_PasswordReplacedRevokes ==
    [][ \A u \in Users :
          ( /\ users[u] # NoUser /\ users'[u] # NoUser
            /\ users'[u].password # users[u].password )
          => /\ Find(refreshTokens', u) = <<>>
             /\ \A i \in Logins, fp \in AccountFingerprints :
                   issued[i].user = u
                   => RefreshTokenResult(issued[i].refreshToken, fp[1], fp[2]).call.status'
                         = "Unauthorized" ]_vars

\* the refresh token of a login is valid: a refresh from the device of the
\* login accepts it
ValidToken(i) ==
    RefreshTokenResult(issued[i].refreshToken,
                       issued[i].userAgent, issued[i].ipAddress).call.status = "ok"

\* C27: a logout, a changePassword, a revokeAllSessions or a refresh (with
\* its anomaly revocation and its delete of an expired record) made for an
\* account leaves every other account alone: the records of the other account
\* stay in the ledger unchanged, no security event of the other account is
\* appended, its password stays, and every refresh token of the other account
\* that was accepted before is accepted after.
C27_AccountIsolation ==
    [][ \A y \in Users :
          ( /\ last'.op \in {"logout", "changePassword", "revokeAllSessions", "refresh"}
            /\ last'.user # y )
          => /\ Find(refreshTokens', y) = Find(refreshTokens, y)
             /\ SelectSeq(securityLogs', LAMBDA e : e.userId = y)
                   = SelectSeq(securityLogs, LAMBDA e : e.userId = y)
             /\ users'[y] = users[y]
             /\ \A i \in Logins :
                   (issued[i].user = y /\ ValidToken(i)) => ValidToken(i)' ]_vars

\* C27 witness: the anomaly revocation of an account has just emptied its
\* part of the ledger and logged its event, while the other account keeps a
\* record and a refresh token that is accepted.
C27_Witness ==
    /\ last.op = "refresh" /\ last.message = SuspiciousMessage
    /\ \E y \in Users :
          /\ y # last.user
          /\ Find(refreshTokens, y) # <<>>
          /\ \E i \in Logins : issued[i].user = y /\ ValidToken(i)
    /\ Len(securityLogs) = 1 /\ securityLogs[1].userId = last.user

\* no two accounts have the same login name
NamesUnique ==
    \A u, v \in Users :
        (u # v /\ users[u] # NoUser /\ users[v] # NoUser) => users[u].name # users[v].name

\* a call of register or updateUserProfile that has ended without writing
\* its name, because the name was taken, has failed with Conflict
LoserGetsConflict ==
    \A w \in Workers :
        ( /\ calls[w].pc = "done"
          /\ calls[w].op \in {"register", "updateUserProfile"}
          /\ calls[w].status \notin {"ok", "NotFound"} )
        => calls[w].status = "Conflict"

\* C23: in every interleaving of register and updateUserProfile calls no two
\* accounts have the same login name, and the call that loses the race for a
\* name fails with Conflict.
C23_NamesUniqueLoserConflict == NamesUnique /\ LoserGetsConflict

\* C24: in every interleaving of activateSystemPrompt calls at most one
\* configuration is active in every reachable state, and when a call
\* activateSystemPrompt(id) succeeds the configuration id is the active one.
C24_AtMostOneActive ==
    /\ [](Cardinality(ActivePrompts) <= 1)
    /\ [][ \A w \in Workers :
              ActivateSystemPromptInvalidateCache(w)
              => ActivePrompts' = {calls[w].id} ]_vars

\* C25: once activateSystemPrompt(id) has completed, and until another
\* activation, a getActivePrompt call that starts returns the compiled prompt
\* of id, whatever getActivePrompt call was under way during the activation:
\* the cache holds no valid prompt other than that of id, and id is the
\* configuration that a read of the database finds.
C25_CacheInvalidatedByActivation ==
    ( /\ calls[Admin].op = "activateSystemPrompt"
      /\ calls[Admin].pc = "done" /\ calls[Admin].status = "ok" )
    => /\ ActivePrompts = {calls[Admin].id}
       /\ (promptCache.cachedPrompt # Null /\ IsCacheValid)
             => promptCache.cachedPrompt = systemPrompts[calls[Admin].id].compiledPrompt

\* C28: a user has at most one active chat session in every reachable state,
\* also when two startSession calls of the user interleave between the check
\* for an active session and the save.
C28_OneActiveSession ==
    \A u \in Users :
        Cardinality({ k \in 1..Len(chatSessions) :
                        chatSessions[k].userId = u /\ chatSessions[k].isActive }) <= 1

\* the entry of a client in the map, NoClient when it has none
EntryOf(clientIp) == requestCounts[clientIp]

\* the window of the client is open: it has an entry and resetTime has not
\* passed
WindowOpen(clientIp) ==
    EntryOf(clientIp) # NoClient /\ now <= EntryOf(clientIp).resetTime

\* C29: within a window of a client, from the request that opens it with
\* count 1 and resetTime = now + ttl until resetTime has passed, the number
\* of requests that RateLimitGuard admits (which the count of the entry
\* counts, one by one) never exceeds maxRequests; every further request is
\* rejected with 429 TOO_MANY_REQUESTS; and a request of a client leaves the
\* entries of the other clients as they are.
C29_AtMostMaxRequests ==
    /\ [](\A ip \in IpAddresses :
            EntryOf(ip) # NoClient => EntryOf(ip).count \in 1..RateLimitMax)
    /\ [][ \A ip \in IpAddresses :
              CanActivate(ip)
              => /\ \A other \in IpAddresses \ {ip} : EntryOf(other)' = EntryOf(other)
                 /\ IF ~WindowOpen(ip)
                    THEN /\ last'.status = "ok"
                         /\ EntryOf(ip)' = [count |-> 1, resetTime |-> now + RateLimitTtl]
                    ELSE IF EntryOf(ip).count < RateLimitMax
                    THEN /\ last'.status = "ok"
                         /\ EntryOf(ip)' = [EntryOf(ip) EXCEPT !.count = @ + 1]
                    ELSE /\ last'.status = "TooManyRequests"
                         /\ EntryOf(ip)' = EntryOf(ip) ]_vars

\* C29 witness: a client has just been rejected in a window in which
\* maxRequests requests were admitted, while the other client has a window
\* of its own with one request.
C29_Witness ==
    /\ last.op = "canActivate" /\ last.status = "TooManyRequests"
    /\ WindowOpen(last.ipAddress)
    /\ EntryOf(last.ipAddress).count = RateLimitMax
    /\ \E other \in IpAddresses \ {last.ipAddress} :
          WindowOpen(other) /\ EntryOf(other).count = 1

\* C30: a request that RateLimitGuard rejects neither increments the count
\* nor moves resetTime, and the first request of a blocked client that
\* arrives after resetTime is admitted and opens a new window with count 1
\* and resetTime = now + ttl.
C30_AdmittedAfterWindow ==
    [][ \A ip \in IpAddresses :
          CanActivate(ip)
          => /\ last'.status = "TooManyRequests" => EntryOf(ip)' = EntryOf(ip)
             /\ ( /\ EntryOf(ip) # NoClient
                  /\ EntryOf(ip).count >= RateLimitMax
                  /\ now > EntryOf(ip).resetTime )
                => /\ last'.status = "ok"
                   /\ EntryOf(ip)'.count = 1
                   /\ EntryOf(ip)'.resetTime = now + RateLimitTtl
             /\ ( /\ EntryOf(ip) # NoClient
                  /\ EntryOf(ip).count >= RateLimitMax
                  /\ now <= EntryOf(ip).resetTime )
                => last'.status = "TooManyRequests" ]_vars

\* C30 witness: the last request was one of a blocked client and was
\* rejected, which left the count at maxRequests and resetTime where it was;
\* resetTime has passed since, and the request of the client that arrives
\* now is admitted and opens a window with count 1.
C30_Witness ==
    /\ last.op = "canActivate" /\ last.status = "TooManyRequests"
    /\ EntryOf(last.ipAddress).count = RateLimitMax
    /\ now > EntryOf(last.ipAddress).resetTime
    /\ CanActivateResult(last.ipAddress).call.status = "ok"
    /\ CanActivateResult(last.ipAddress).counts[last.ipAddress]
          = [count |-> 1, resetTime |-> now + RateLimitTtl]

====
